---------------------------- MODULE Spec2Model ----------------------------
(***************************************************************************)
(* Verification model of the speech-translation relay                      *)
(* (Telomelonia/zoom-client-s2s-translator).                               *)
(*                                                                         *)
(* Two state machines share this module:                                   *)
(*                                                                         *)
(*   SpecPipe  TranslationPipeline (python/src/routing/pipeline.py): the   *)
(*             orchestrator with its four loop tasks, four audio ports     *)
(*             and up to three GeminiS2STClient links.                     *)
(*   SpecLink  one GeminiS2STClient (python/src/gemini/client.py) with its *)
(*             ReconnectionHandler and SessionTimeoutTracker               *)
(*             (python/src/gemini/errors.py), a consumer iterating         *)
(*             receive_audio() and a producer calling send_audio().        *)
(*                                                                         *)
(* SpecRestart is the pipeline driven through MaxRestarts start calls with *)
(* devices and connects that succeed; SpecLinkFair is SpecLink with the    *)
(* fairness of the event loop, for liveness.                               *)
(*                                                                         *)
(* Scheduling.  All coroutines run on one asyncio event loop, so a         *)
(* coroutine is only interleaved with others at an await that really       *)
(* suspends.  The position of the coroutine that runs a pipeline API call  *)
(* is p_pc; loop tasks and link events take steps only while that          *)
(* coroutine is suspended (Suspended) or no call is in progress.           *)
(***************************************************************************)
EXTENDS Integers, Sequences, FiniteSets, TLC

VARIABLES
    \* ---- TranslationPipeline ------------------------------------------
    p_state,        \* self._state
    p_mode,         \* self._current_mode ("NONE" is None)
    p_stats,        \* self._stats (PipelineStats)
    p_pc,           \* position of the coroutine running start_*() / stop()
    p_task,         \* self._outgoing_send_task ... self._incoming_receive_task
    p_leaked,       \* live tasks whose handle was overwritten (bag)
    p_port,         \* self._mic_capture, _virtual_mic_output, _system_capture, _speaker_output
    p_leakedPorts,  \* open ports whose field was overwritten (count per field)
    p_client,       \* self._gemini_client, _outgoing_gemini_client, _incoming_gemini_client
    p_starts,       \* number of start_*() calls the user still makes
    p_faults,       \* number of link faults the remote side has caused so far
    \* ---- GeminiS2STClient ---------------------------------------------
    l_state,        \* self._state
    l_session,      \* self._session is not None (an open remote session)
    l_rtask,        \* self._receive_task: "none", "running", "done"
    l_queue,        \* self._receive_queue.qsize()
    l_age,          \* loop.time() - _timeout_tracker._session_start_time; -1 is None
    l_stats,        \* self._stats (GeminiStats)
    l_auto,         \* self._enable_auto_reconnect
    l_rh,           \* self._reconnection_handler: [state, retry_count]
    l_gen,          \* position of the consumer's receive_audio() generator
    l_wire,         \* chunks handed to self._session.send_realtime_input() so far
    l_calls,        \* connect_func calls and sleeps of the current reconnect_with_backoff()
    l_delay,        \* the backoff sleep in progress, in ms after jitter (0: none)
    l_raised,       \* what the last connect() / send_audio() call raised
    \* ---- SessionTimeoutTracker ----------------------------------------
    t_timeout,      \* self._session_timeout
    t_start,        \* self._session_start_time (-1 is None)
    t_now,          \* asyncio.get_running_loop().time()
    \* ---- BaseCaptureDevice --------------------------------------------
    c_cap,          \* maxsize of self._queue
    c_queue,        \* self._queue: the chunks queued, oldest first
    c_stats,        \* self._chunks_captured, _bytes_captured, _overruns
    c_flags,        \* callbacks so far that carried paInputOverflow
    c_reads,        \* chunks read from the queue so far
    \* ---- BaseCaptureDevice / BasePlaybackDevice: one audio port ---------
    a_kind,         \* the class of the port: "capture" or "playback"
    a_index,        \* self._device_index: "none" (None), "valid" or "invalid"
    a_cap,          \* maxsize of self._queue
    a_state,        \* self._state
    a_pyaudio,      \* self._pyaudio is not None (a driver instance is held)
    a_stream,       \* self._stream: "none" (None), "active" or "stopped"
    a_queue,        \* self._queue: the buffers queued, oldest first
    a_stats,        \* the three counters of the port
    a_pushed,       \* the chunks PortAudio has passed to the capture callback, in order
    a_read,         \* the chunks read_chunk() has returned, in order
    a_flags,        \* playback callbacks so far that carried paOutputUnderflow
    a_out,          \* <<what the playback callback last returned to the driver>>
    a_writer,       \* <<the buffer of a write_chunk() blocked in queue.put()>>
    a_calls,        \* start() and stop() calls made so far
    a_raised,       \* what the last call on the port raised
    \* ---- GeminiS2STClient: transcript buffers -------------------------
    s_enable,       \* self._config.enable_transcription
    s_input,        \* self._input_transcription
    s_output,       \* self._output_transcription
    s_received,     \* self._stats.chunks_received
    s_responses,    \* responses the session has produced so far
    \* ---- TranslationPipeline: one direction over its link --------------
    r_state,        \* self._state of the pipeline
    r_send,         \* the send loop task: "none", "running", "done"
    r_receive,      \* the receive loop task: "none", "running", "done"
    r_stats,        \* self._stats: errors_encountered, audio_chunks_sent_to_gemini
    \* ---- the users of an audio port -----------------------------------
    u_iter,         \* position of the consumer iterating stream()
    u_ret,          \* what the last write_chunk_nowait() returned
    u_call,         \* the write_chunk(data, timeout) call: waiting, or how it ended
    \* ---- SystemAudioCapture --------------------------------------------
    m_stereo,       \* self._stereo_to_mono
    m_input_channels, \* self._input_channels
    m_channels,     \* self._channels
    m_in,           \* the samples of the in_data of the last callback
    m_chunk         \* <<the AudioChunk the last callback made>>

pvars == <<p_state, p_mode, p_stats, p_pc, p_task, p_leaked, p_port,
           p_leakedPorts, p_client, p_starts, p_faults>>
lvars == <<l_state, l_session, l_rtask, l_queue, l_age, l_stats, l_auto,
           l_wire, l_calls, l_rh, l_gen, l_delay, l_raised>>
tvars == <<t_timeout, t_start, t_now>>
cvars == <<c_cap, c_queue, c_stats, c_flags, c_reads>>
avars == <<a_kind, a_index, a_cap, a_state, a_pyaudio, a_stream, a_queue,
           a_stats, a_pushed, a_read, a_flags, a_out, a_writer, a_calls, a_raised>>
svars == <<s_enable, s_input, s_output, s_received, s_responses>>
rvars == <<r_state, r_send, r_receive, r_stats>>
uvars == <<u_iter, u_ret, u_call>>
mvars == <<m_stereo, m_input_channels, m_channels, m_in, m_chunk>>
vars == <<pvars, lvars, tvars, cvars, avars, svars, rvars, uvars, mvars>>

\* what a step of one component leaves alone
nonPipe == <<lvars, tvars, cvars, avars, svars, rvars, uvars, mvars>>
nonLink == <<pvars, tvars, cvars, avars, svars, rvars, uvars, mvars>>
nonTracker == <<pvars, lvars, cvars, avars, svars, rvars, uvars, mvars>>
nonCapture == <<pvars, lvars, tvars, avars, svars, rvars, uvars, mvars>>
nonPort == <<pvars, lvars, tvars, cvars, svars, rvars, uvars, mvars>>
nonScript == <<pvars, lvars, tvars, cvars, avars, rvars, uvars, mvars>>
\* a step of a pipeline loop over its link leaves these alone
nonRelay == <<pvars, tvars, cvars, avars, svars, uvars, mvars>>
\* a step of a user of a port leaves these alone
nonPortUse == <<pvars, lvars, tvars, cvars, svars, rvars, mvars>>
\* a callback of the system audio capture leaves these alone
nonMono == <<pvars, lvars, tvars, avars, svars, rvars, uvars>>

-----------------------------------------------------------------------------
(* Bounds of the model                                                     *)

\* start_*() calls explored on one pipeline
MaxStarts == 2
\* start_*() calls explored by the restart scenario (SpecRestart)
MaxRestarts == 3
\* faults of the links' background receive loops
MaxFaults == 1
\* cap of PipelineStats.errors_encountered
MaxErrors == 2
\* audio chunks that enter a pipeline: captured by a port or delivered by a link
MaxChunks == 1
\* modelled capacity of a link's receive queue
MaxQueue == 1
\* cap of GeminiStats.error_count
MaxLinkErrors == 6
\* sessions of one link that are watched until they near expiry
MaxReconnects == 2
\* seconds of loop time that pass in one step of the clock
SessionTick == 285
\* chunks the application hands to a connected link's session
MaxSent == 1
\* latest loop time explored for a tracker on its own, in seconds
MaxNow == 600
\* largest maxsize explored for a capture queue
MaxCapacity == 3
\* callbacks PortAudio makes on one capture device
MaxPushed == 5
\* start() and stop() calls explored on one audio port
MaxPortCalls == 3
\* chunks one capture port captures
MaxPortChunks == 3
\* buffers producers write to one playback port
MaxWrites == 2
\* cap of the underruns counter of a playback port
MaxUnderruns == 1
\* responses one session delivers to the background receive task
MaxResponses == 3
\* callbacks PortAudio makes on one system audio capture
MaxMonoChunks == 2

\* lengths of a chunk of audio, in bytes
ChunkLens == {1, 2}

-----------------------------------------------------------------------------
(* TranslationPipeline: vocabulary                                         *)

PipelineState == {"STOPPED", "STARTING", "RUNNING", "STOPPING", "ERROR"}
PipelineMode == {"OUTGOING", "INCOMING", "BIDIRECTIONAL"}
Directions == {"outgoing", "incoming"}
TaskNames ==
    {"outgoing_send", "outgoing_receive", "incoming_send", "incoming_receive"}
PortNames == {"mic_capture", "virtual_mic_output", "system_capture", "speaker_output"}
ClientNames == {"gemini_client", "outgoing_gemini_client", "incoming_gemini_client"}
\* what a task's local variable `client` refers to: the instance held by one
\* of the three fields, or "dropped": an instance stop() disconnected and
\* then removed from its field
ClientRefs == ClientNames \cup {"dropped"}

SendTask(d) == IF d = "outgoing" THEN "outgoing_send" ELSE "incoming_send"
ReceiveTask(d) == IF d = "outgoing" THEN "outgoing_receive" ELSE "incoming_receive"
CapturePort(d) == IF d = "outgoing" THEN "mic_capture" ELSE "system_capture"
PlaybackPort(d) == IF d = "outgoing" THEN "virtual_mic_output" ELSE "speaker_output"
TaskDir(n) == IF n \in {"outgoing_send", "outgoing_receive"} THEN "outgoing" ELSE "incoming"
IsSend(n) == n \in {"outgoing_send", "incoming_send"}

\* Status of a task handle: "none" (the field is None), "new" (created, not
\* yet run), "running", "failed" (ended in `except Exception` since the last
\* stop() call), "done" (ended otherwise: returned, cancelled, or failed
\* before the last stop() call).  The code only reads task.done().
\* asyncio.Task: not task.done()
Alive(st) == st \in {"new", "running"}

LeakKeys == [name : TaskNames, client : ClientRefs, st : {"new", "running"}]

\* position of the API coroutine: the call it is in, the direction or link it
\* is working on, and the phase inside the call
Idle == [op |-> "idle", arg |-> "-", ph |-> "-"]
At(op, a, ph) == [op |-> op, arg |-> a, ph |-> ph]

\* GeminiS2STClient.is_connected of the instance a task holds
ClientConnected(ref) ==
    /\ ref # "dropped"
    /\ p_client[ref].state = "CONNECTED"

\* a field holding None; a freshly constructed GeminiS2STClient differs from
\* it by its state only
NoClient ==
    [state |-> "NONE", session |-> FALSE,
     chunks_sent |-> 0, chunks_received |-> 0, q |-> 0]

-----------------------------------------------------------------------------
(* TranslationPipeline: scheduling                                         *)

\* The API coroutine is parked at an await that suspends it: the link's
\* connect(), asyncio.gather(), the await of a cancelled task, or the awaits
\* inside disconnect() of a link that has a session to close.
Suspended ==
    \/ p_pc.op = "idle"
    \/ p_pc.ph \in {"connect", "gather", "gather_failed", "await_send", "await_receive"}
    \/ /\ p_pc.ph = "disconnect"
       /\ p_client[p_pc.arg].session

\* every live task: the ones still referenced by a handle and the leaked ones
TaskInstances ==
    {[kind |-> "handle", name |-> n, client |-> p_task[n].client, st |-> p_task[n].st] :
        n \in {m \in TaskNames : Alive(p_task[m].st)}}
    \cup
    {[kind |-> "leaked", name |-> k.name, client |-> k.client, st |-> k.st] :
        k \in {j \in LeakKeys : p_leaked[j] > 0}}

KeyOf(t, st) == [name |-> t.name, client |-> t.client, st |-> st]

\* the task t moves to status st
SetTask(t, st) ==
    IF t.kind = "handle"
    THEN /\ p_task' = [p_task EXCEPT ![t.name] =
                        [st |-> st, client |-> IF Alive(st) THEN t.client ELSE "dropped"]]
         /\ UNCHANGED p_leaked
    ELSE /\ p_leaked' =
               IF Alive(st)
               THEN [p_leaked EXCEPT ![KeyOf(t, t.st)] = @ - 1,
                                     ![KeyOf(t, st)] = @ + 1]
               ELSE [p_leaked EXCEPT ![KeyOf(t, t.st)] = @ - 1]
         /\ UNCHANGED p_task

\* a failure handler that also ends every other loop the pipeline has stored
LoopFailsEndsAllLoops(t) ==
    /\ p_stats.errors < MaxErrors
    /\ p_stats' = [p_stats EXCEPT !.errors = @ + 1]
    /\ p_state' = "ERROR"
    /\ IF t.kind = "handle"
       THEN /\ p_task' = [n \in TaskNames |->
                            IF Alive(p_task[n].st)
                            THEN [st |-> "failed", client |-> "dropped"]
                            ELSE p_task[n]]
            /\ UNCHANGED p_leaked
       ELSE SetTask(t, "failed")

\* `except Exception` of the four loops: count, mark the pipeline ERROR, and
\* let the task end (the exception is not re-raised)
LoopFails(t) ==
    /\ p_stats.errors < MaxErrors
    /\ p_stats' = [p_stats EXCEPT !.errors = @ + 1]
    /\ p_state' = "ERROR"
    /\ SetTask(t, "failed")

-----------------------------------------------------------------------------
(* TranslationPipeline: start_outgoing / start_incoming / start_bidirectional *)

\* the guard of the three start methods: `if self.is_running: raise`
StartAllowed == p_state # "RUNNING"

\* the link a start call uses for direction d
ClientFor(op, d) ==
    IF op = "start_bidirectional"
    THEN (IF d = "outgoing" THEN "outgoing_gemini_client" ELSE "incoming_gemini_client")
    ELSE "gemini_client"

\* `if self._x_client is None: self._x_client = GeminiS2STClient(); await connect()`
\* up to the await inside connect(); FALSE when the field is already set
NeedsConnect(c) == p_client[c].state = "NONE"

BeginConnect(c) == [p_client EXCEPT ![c] = [NoClient EXCEPT !.state = "CONNECTING"]]

\* an except branch that does not count the failure
StartFailsUncounted(op, d) ==
    /\ p_stats.errors < MaxErrors
    /\ p_state' = "ERROR"
    /\ p_stats' = p_stats
    /\ p_pc' = IF op = "start_bidirectional"
               THEN At(op, "-", "call_stop")
               ELSE At(op, d, "cancel_send")

\* the except branch of start_outgoing / start_incoming (cleanup of the one
\* direction) and of start_bidirectional (a full stop())
StartFails(op, d) ==
    /\ p_stats.errors < MaxErrors
    /\ p_state' = "ERROR"
    /\ p_stats' = [p_stats EXCEPT !.errors = @ + 1]
    /\ p_pc' = IF op = "start_bidirectional"
               THEN At(op, "-", "call_stop")
               ELSE At(op, d, "cancel_send")

StartSingle(op, mode, d) ==
    /\ p_pc = Idle
    /\ StartAllowed
    /\ p_starts > 0
    /\ p_starts' = p_starts - 1
    /\ p_state' = "STARTING"
    /\ p_mode' = mode
    /\ IF NeedsConnect("gemini_client")
       THEN /\ p_client' = BeginConnect("gemini_client")
            /\ p_pc' = At(op, d, "connect")
       ELSE /\ UNCHANGED p_client
            /\ p_pc' = At(op, d, "run")
    /\ UNCHANGED <<p_stats, p_task, p_leaked, p_port, p_leakedPorts, p_faults>>

StartOutgoing == StartSingle("start_outgoing", "OUTGOING", "outgoing")

StartIncoming == StartSingle("start_incoming", "INCOMING", "incoming")

StartBidirectional ==
    /\ p_pc = Idle
    /\ StartAllowed
    /\ p_starts > 0
    /\ p_starts' = p_starts - 1
    /\ p_state' = "STARTING"
    /\ p_mode' = "BIDIRECTIONAL"
    /\ IF NeedsConnect("outgoing_gemini_client")
       THEN /\ p_client' = BeginConnect("outgoing_gemini_client")
            /\ p_pc' = At("start_bidirectional", "outgoing", "connect")
       ELSE IF NeedsConnect("incoming_gemini_client")
       THEN /\ p_client' = BeginConnect("incoming_gemini_client")
            /\ p_pc' = At("start_bidirectional", "incoming", "connect")
       ELSE /\ UNCHANGED p_client
            /\ p_pc' = At("start_bidirectional", "outgoing", "run")
    /\ UNCHANGED <<p_stats, p_task, p_leaked, p_port, p_leakedPorts, p_faults>>

\* connect() returns: the session is open and the link CONNECTED
ConnectSucceeds ==
    /\ p_pc.ph = "connect"
    /\ LET c == ClientFor(p_pc.op, p_pc.arg) IN
       IF /\ p_pc.op = "start_bidirectional"
          /\ p_pc.arg = "outgoing"
          /\ NeedsConnect("incoming_gemini_client")
       THEN /\ p_client' = [p_client EXCEPT
                   ![c].state = "CONNECTED", ![c].session = TRUE,
                   !["incoming_gemini_client"] = [NoClient EXCEPT !.state = "CONNECTING"]]
            /\ p_pc' = At(p_pc.op, "incoming", "connect")
       ELSE /\ p_client' = [p_client EXCEPT
                   ![c].state = "CONNECTED", ![c].session = TRUE]
            /\ p_pc' = At(p_pc.op,
                          IF p_pc.op = "start_bidirectional" THEN "outgoing" ELSE p_pc.arg,
                          "run")
    /\ UNCHANGED <<p_state, p_mode, p_stats, p_task, p_leaked, p_port,
                   p_leakedPorts, p_starts, p_faults>>

\* connect() raises: the link is left in ERROR in its field
ConnectFails ==
    /\ p_pc.ph = "connect"
    /\ p_client' = [p_client EXCEPT ![ClientFor(p_pc.op, p_pc.arg)].state = "ERROR"]
    /\ StartFails(p_pc.op, p_pc.arg)
    /\ UNCHANGED <<p_mode, p_task, p_leaked, p_port, p_leakedPorts, p_starts, p_faults>>

\* what _run_outgoing_pipeline / _run_incoming_pipeline can do
RunOutcomes == {"ok", "no_device", "capture_fails", "playback_fails"}

\* a port field is assigned a new port object, which then starts (RUNNING) or
\* fails to (ERROR, its own resources released); the object the field held
\* before is dropped without stop()
AssignPort(ports, f, st) == [ports EXCEPT ![f] = st]
DropPort(leaks, f) ==
    IF p_port[f] = "RUNNING" THEN [leaks EXCEPT ![f] = @ + 1] ELSE leaks

\* the port fields after _run_<d>_pipeline with the given outcome.  Outgoing
\* opens the microphone before it looks for the virtual microphone; incoming
\* looks for the loopback device before it creates any port.
PortsAfterRun(d, outcome) ==
    LET cap == CapturePort(d)
        play == PlaybackPort(d)
    IN CASE outcome = "ok" ->
              AssignPort(AssignPort(p_port, cap, "RUNNING"), play, "RUNNING")
         [] outcome = "playback_fails" ->
              AssignPort(AssignPort(p_port, cap, "RUNNING"), play, "ERROR")
         [] outcome = "capture_fails" -> AssignPort(p_port, cap, "ERROR")
         [] outcome = "no_device" ->
              IF d = "outgoing" THEN AssignPort(p_port, cap, "RUNNING") ELSE p_port

LeaksAfterRun(d, outcome) ==
    LET cap == CapturePort(d)
        play == PlaybackPort(d)
    IN CASE outcome \in {"ok", "playback_fails"} ->
              DropPort(DropPort(p_leakedPorts, cap), play)
         [] outcome = "capture_fails" -> DropPort(p_leakedPorts, cap)
         [] outcome = "no_device" ->
              IF d = "outgoing" THEN DropPort(p_leakedPorts, cap) ELSE p_leakedPorts

\* asyncio.create_task of the two loops of direction d on link c: the handles
\* are overwritten, a task they still referenced lives on unreferenced
LeakHandle(bag, n) ==
    IF Alive(p_task[n].st)
    THEN [bag EXCEPT ![[name |-> n, client |-> p_task[n].client, st |-> p_task[n].st]] = @ + 1]
    ELSE bag

LaunchLoops(d, c) ==
    /\ p_leaked' = LeakHandle(LeakHandle(p_leaked, SendTask(d)), ReceiveTask(d))
    /\ p_task' = [p_task EXCEPT
            ![SendTask(d)] = [st |-> "running", client |-> c],
            ![ReceiveTask(d)] = [st |-> "new", client |-> c]]

\* _run_outgoing_pipeline / _run_incoming_pipeline called by start_outgoing /
\* start_incoming: it has no await that suspends, so it is one step together
\* with the `self._state = RUNNING` or the except branch that follows it
RunSingle(d, outcome) ==
    /\ p_pc.op \in {"start_outgoing", "start_incoming"}
    /\ p_pc.ph = "run"
    /\ p_pc.arg = d
    /\ p_port' = PortsAfterRun(d, outcome)
    /\ p_leakedPorts' = LeaksAfterRun(d, outcome)
    /\ IF outcome = "ok"
       THEN /\ LaunchLoops(d, ClientFor(p_pc.op, d))
            /\ p_state' = "RUNNING"
            /\ p_pc' = Idle
            /\ UNCHANGED p_stats
       ELSE /\ StartFails(p_pc.op, d)
            /\ UNCHANGED <<p_task, p_leaked>>
    /\ UNCHANGED <<p_mode, p_client, p_starts, p_faults>>

\* the two coroutines asyncio.gather() runs for start_bidirectional: outgoing
\* first, then incoming, each to its end whatever the other did
RunGathered(d, outcome) ==
    /\ p_pc.op = "start_bidirectional"
    /\ p_pc.ph \in {"run", "run_failed"}
    /\ p_pc.arg = d
    /\ p_port' = PortsAfterRun(d, outcome)
    /\ p_leakedPorts' = LeaksAfterRun(d, outcome)
    /\ IF outcome = "ok"
       THEN LaunchLoops(d, ClientFor(p_pc.op, d))
       ELSE UNCHANGED <<p_task, p_leaked>>
    /\ LET failed == outcome # "ok" \/ p_pc.ph = "run_failed" IN
       p_pc' = IF d = "outgoing"
               THEN At(p_pc.op, "incoming", IF failed THEN "run_failed" ELSE "run")
               ELSE At(p_pc.op, "-", IF failed THEN "gather_failed" ELSE "gather")
    /\ UNCHANGED <<p_state, p_mode, p_stats, p_client, p_starts, p_faults>>

\* start_bidirectional resumes after `await asyncio.gather(...)`
GatherReturns ==
    /\ p_pc.op = "start_bidirectional"
    /\ p_pc.ph = "gather"
    /\ p_state' = "RUNNING"
    /\ p_pc' = Idle
    /\ UNCHANGED <<p_mode, p_stats, p_task, p_leaked, p_port, p_leakedPorts,
                   p_client, p_starts, p_faults>>

GatherRaises ==
    /\ p_pc.op = "start_bidirectional"
    /\ p_pc.ph = "gather_failed"
    /\ StartFails(p_pc.op, "-")
    /\ UNCHANGED <<p_mode, p_task, p_leaked, p_port, p_leakedPorts,
                   p_client, p_starts, p_faults>>

-----------------------------------------------------------------------------
(* TranslationPipeline: _cleanup_outgoing / _cleanup_incoming / stop        *)

\* a cleanup that releases the playback port of its direction first
CleanupPlaybackFirst(d) == PlaybackPort(d)

\* the order in which _cleanup_<d> stops the two ports of its direction
CleanupFirstPort(d) == CapturePort(d)
CleanupSecondPort(d) == PlaybackPort(d)

\* the directions stop() cleans up, in order, for the current mode
StopDirections(mode) ==
    CASE mode = "OUTGOING" -> <<"outgoing">>
      [] mode = "INCOMING" -> <<"incoming">>
      [] mode = "BIDIRECTIONAL" -> <<"outgoing", "incoming">>
      [] OTHER -> <<>>

\* the order in which stop() disconnects the link fields
DisconnectOrder == <<"gemini_client", "outgoing_gemini_client", "incoming_gemini_client">>

\* where the coroutine goes when _cleanup_<d> returns: a failed start raises
\* to its caller; stop() goes on with the next direction or with the links
AfterCleanup(op, d) ==
    IF op # "stop" THEN Idle
    ELSE IF d = "outgoing" /\ Len(StopDirections(p_mode)) = 2
    THEN At("stop", "incoming", "cancel_send")
    ELSE At("stop", DisconnectOrder[1], "disconnect")

\* stop(): `if self._state == STOPPED: return`, then STOPPING.  It is called
\* by the user, or by the except branch of start_bidirectional.
Stop ==
    /\ \/ p_pc = Idle
       \/ p_pc = At("start_bidirectional", "-", "call_stop")
    /\ p_state # "STOPPED"
    /\ p_state' = "STOPPING"
    /\ p_pc' = IF StopDirections(p_mode) = <<>>
               THEN At("stop", DisconnectOrder[1], "disconnect")
               ELSE At("stop", StopDirections(p_mode)[1], "cancel_send")
    /\ p_task' = [n \in TaskNames |->
                    IF p_task[n].st = "failed"
                    THEN [p_task[n] EXCEPT !.st = "done"] ELSE p_task[n]]
    /\ UNCHANGED <<p_mode, p_stats, p_leaked, p_port, p_leakedPorts,
                   p_client, p_starts, p_faults>>

\* `if task and not task.done(): task.cancel(); await task`: the coroutine
\* suspends only if there is a task to wait for
CleanupCancel ==
    /\ p_pc.ph \in {"cancel_send", "cancel_receive"}
    /\ LET d == p_pc.arg
           n == IF p_pc.ph = "cancel_send" THEN SendTask(d) ELSE ReceiveTask(d)
       IN IF Alive(p_task[n].st)
          THEN /\ p_task' = [p_task EXCEPT ![n] = [st |-> "done", client |-> "dropped"]]
               /\ p_pc' = At(p_pc.op, d,
                             IF p_pc.ph = "cancel_send" THEN "await_send" ELSE "await_receive")
          ELSE /\ UNCHANGED p_task
               /\ p_pc' = At(p_pc.op, d,
                             IF p_pc.ph = "cancel_send" THEN "cancel_receive" ELSE "stop_first")
    /\ UNCHANGED <<p_state, p_mode, p_stats, p_leaked, p_port, p_leakedPorts,
                   p_client, p_starts, p_faults>>

\* the cancelled task has ended and the await returns
CleanupAwaited ==
    /\ p_pc.ph \in {"await_send", "await_receive"}
    /\ p_pc' = At(p_pc.op, p_pc.arg,
                  IF p_pc.ph = "await_send" THEN "cancel_receive" ELSE "stop_first")
    /\ UNCHANGED <<p_state, p_mode, p_stats, p_task, p_leaked, p_port,
                   p_leakedPorts, p_client, p_starts, p_faults>>

\* `if self._port: await self._port.stop(); self._port = None`
CleanupStopPort ==
    /\ p_pc.ph \in {"stop_first", "stop_second"}
    /\ LET d == p_pc.arg
           f == IF p_pc.ph = "stop_first" THEN CleanupFirstPort(d) ELSE CleanupSecondPort(d)
       IN /\ p_port' = [p_port EXCEPT ![f] = "NONE"]
          /\ p_pc' = IF p_pc.ph = "stop_first"
                     THEN At(p_pc.op, d, "stop_second")
                     ELSE AfterCleanup(p_pc.op, d)
    /\ UNCHANGED <<p_state, p_mode, p_stats, p_task, p_leaked, p_leakedPorts,
                   p_client, p_starts, p_faults>>

\* a task that held the instance of field c now holds a dropped instance
Rebind(ref, c) == IF ref = c THEN "dropped" ELSE ref

RebindLeaked(c) ==
    [k \in LeakKeys |->
        IF k.client = c THEN 0
        ELSE IF k.client = "dropped"
        THEN p_leaked[k] + p_leaked[[k EXCEPT !.client = c]]
        ELSE p_leaked[k]]

\* `if self._x_client: await self._x_client.disconnect(); self._x_client = None`
\* and, after the last field, `self._state = STOPPED; self._current_mode = None`
StopDisconnect ==
    /\ p_pc.op = "stop"
    /\ p_pc.ph = "disconnect"
    /\ LET c == p_pc.arg
           last == c = DisconnectOrder[Len(DisconnectOrder)]
           next == CHOOSE i \in 1..Len(DisconnectOrder) : DisconnectOrder[i] = c
       IN /\ p_client' = [p_client EXCEPT ![c] = NoClient]
          /\ p_task' = [n \in TaskNames |->
                          [p_task[n] EXCEPT !.client = Rebind(@, c)]]
          /\ p_leaked' = RebindLeaked(c)
          /\ IF last
             THEN /\ p_state' = "STOPPED"
                  /\ p_mode' = "NONE"
                  /\ p_pc' = Idle
             ELSE /\ p_pc' = At("stop", DisconnectOrder[next + 1], "disconnect")
                  /\ UNCHANGED <<p_state, p_mode>>
    /\ UNCHANGED <<p_stats, p_port, p_leakedPorts, p_starts, p_faults>>

-----------------------------------------------------------------------------
(* TranslationPipeline: the four loops, and what the links do under them    *)

\* audio chunks that have entered the pipeline and are counted or queued
ChunksEntered ==
    p_stats.audio_chunks_captured
    + p_stats.audio_chunks_received_from_gemini
    + p_client["gemini_client"].q
    + p_client["outgoing_gemini_client"].q
    + p_client["incoming_gemini_client"].q

\* one iteration of a send loop: a captured chunk is forwarded with
\* client.send_audio(), which counts it in the link's statistics
SendLoopForwards(t) ==
    /\ Suspended
    /\ IsSend(t.name)
    /\ ClientConnected(t.client)
    /\ ChunksEntered < MaxChunks
    /\ p_client' = [p_client EXCEPT ![t.client].chunks_sent = @ + 1]
    /\ p_stats' = [p_stats EXCEPT !.audio_chunks_captured = @ + 1,
                                  !.audio_chunks_sent_to_gemini = @ + 1]
    /\ UNCHANGED <<p_state, p_mode, p_pc, p_task, p_leaked, p_port,
                   p_leakedPorts, p_starts, p_faults>>

\* the errors client.send_audio() raises
SendErrors == {"GeminiConnectionError", "GeminiSessionExpiredError", "GeminiAudioError"}

\* a send loop's `except Exception` catches the error send_audio() raised:
\* the connection error on a link that is not connected, the
\* session-expired or the audio error (a send fault) on a connected one;
\* the branch does not look at the kind of the error
SendLoopCatches(t, error) ==
    /\ Suspended
    /\ IsSend(t.name)
    /\ (error = "GeminiConnectionError") <=> ~ClientConnected(t.client)
    /\ LoopFails(t)
    /\ UNCHANGED <<p_mode, p_pc, p_port, p_leakedPorts, p_client, p_starts, p_faults>>

\* send_audio() raises in a send loop
SendLoopFails(t) == \E error \in SendErrors : SendLoopCatches(t, error)

\* first step of a receive loop: receive_audio() raises at once on a link
\* that is not connected
ReceiveLoopStarts(t) ==
    /\ Suspended
    /\ ~IsSend(t.name)
    /\ t.st = "new"
    /\ IF ClientConnected(t.client)
       THEN /\ SetTask(t, "running")
            /\ UNCHANGED <<p_state, p_stats>>
       ELSE LoopFails(t)
    /\ UNCHANGED <<p_mode, p_pc, p_port, p_leakedPorts, p_client, p_starts, p_faults>>

\* one iteration of a receive loop: a chunk pulled from the link's queue is
\* written to the port the playback field holds now; write_chunk raises if
\* that field is None or its port is not RUNNING
ReceiveLoopPlays(t) ==
    /\ Suspended
    /\ ~IsSend(t.name)
    /\ t.st = "running"
    /\ ClientConnected(t.client)
    /\ p_client[t.client].q > 0
    /\ p_client' = [p_client EXCEPT ![t.client].q = @ - 1]
    /\ IF p_port[PlaybackPort(TaskDir(t.name))] = "RUNNING"
       THEN /\ p_stats' = [p_stats EXCEPT !.audio_chunks_received_from_gemini = @ + 1,
                                          !.audio_chunks_played = @ + 1]
            /\ UNCHANGED <<p_state, p_task, p_leaked>>
       ELSE LoopFails(t)
    /\ UNCHANGED <<p_mode, p_pc, p_port, p_leakedPorts, p_starts, p_faults>>

\* receive_audio()'s `while self.is_connected` ends: the loop returns
ReceiveLoopEnds(t) ==
    /\ Suspended
    /\ ~IsSend(t.name)
    /\ t.st = "running"
    /\ ~ClientConnected(t.client)
    /\ SetTask(t, "done")
    /\ UNCHANGED <<p_state, p_mode, p_stats, p_pc, p_port, p_leakedPorts,
                   p_client, p_starts, p_faults>>

\* the link's background _receive_loop queues a translated chunk
ClientDelivers(c) ==
    /\ Suspended
    /\ p_client[c].state = "CONNECTED"
    /\ p_client[c].q < MaxQueue
    /\ ChunksEntered < MaxChunks
    /\ p_client' = [p_client EXCEPT ![c].chunks_received = @ + 1, ![c].q = @ + 1]
    /\ UNCHANGED <<p_state, p_mode, p_stats, p_pc, p_task, p_leaked, p_port,
                   p_leakedPorts, p_starts, p_faults>>

\* the link's background _receive_loop raises: the link marks itself ERROR
ClientFaults(c) ==
    /\ Suspended
    /\ p_client[c].state = "CONNECTED"
    /\ p_faults < MaxFaults
    /\ p_client' = [p_client EXCEPT ![c].state = "ERROR"]
    /\ p_faults' = p_faults + 1
    /\ UNCHANGED <<p_state, p_mode, p_stats, p_pc, p_task, p_leaked, p_port,
                   p_leakedPorts, p_starts>>

-----------------------------------------------------------------------------
(* GeminiS2STClient, ReconnectionHandler, SessionTimeoutTracker             *)
(*                                                                         *)
(* connect(), disconnect() and send_audio() called by the application are  *)
(* taken as single steps; connect() and disconnect() are not called while  *)
(* a _reconnect() of the consumer's generator is in progress, send_audio() *)
(* is; _reconnect() itself is followed through each of its suspensions.    *)

ConnectionState == {"DISCONNECTED", "CONNECTING", "CONNECTED", "RECONNECTING", "ERROR"}
ReconnectionState == {"IDLE", "CONNECTING", "CONNECTED", "FAILED"}

MAX_RETRIES == 5
BASE_DELAY == 1
MAX_DELAY == 30
BACKOFF_MULTIPLIER == 2
DEFAULT_SESSION_TIMEOUT == 600
RECONNECT_BUFFER == 30

Min(a, b) == IF a <= b THEN a ELSE b

\* GeminiS2STClient.is_connected
is_connected == l_state = "CONNECTED" /\ l_session

\* a tracker that asks for a reconnect whenever a session is open
reconnect_whenever_open(age) == age # -1

\* SessionTimeoutTracker.should_reconnect, on a session of the given age
should_reconnect(age) ==
    IF age = -1
    THEN FALSE
    ELSE age >= DEFAULT_SESSION_TIMEOUT - RECONNECT_BUFFER

\* ReconnectionHandler._calculate_delay before its jitter factor
calculate_delay(retry_count) ==
    Min(BASE_DELAY * BACKOFF_MULTIPLIER ^ retry_count, MAX_DELAY)

\* random.uniform(0.5, 1.0), sampled in thousandths
JitterPermille == {500, 750, 1000}

\* ReconnectionHandler._calculate_delay: `delay * jitter`, in milliseconds
jittered_delay(retry_count, jitter) == calculate_delay(retry_count) * jitter

\* a reset that forgets the state but keeps the retry counter
reset_state_only(rh) == [rh EXCEPT !.state = "IDLE"]

\* ReconnectionHandler.reset
reset(rh) == [rh EXCEPT !.retry_count = 0, !.state = "IDLE"]

\* connect(): the error its `except Exception` branch raises, chosen by the
\* words "authentication" / "api key" in the message of the failure
ConnectRaises(outcome) ==
    IF outcome = "authentication"
    THEN "GeminiAuthenticationError"
    ELSE "GeminiConnectionError"

\* a handler for which every failure is transient
NeverFailsImmediately(raised) == FALSE

\* reconnect_with_backoff(): `except GeminiAuthenticationError`
FailsImmediately(raised) == raised = "GeminiAuthenticationError"

\* a give-up test that allows one attempt more
RetriesExhaustedLate(n) == n > MAX_RETRIES

\* reconnect_with_backoff(): `if self._retry_count >= self._max_retries`
RetriesExhausted(n) == n >= MAX_RETRIES

\* positions of the generator inside _reconnect()
InReconnect == l_gen \in {"reconnect_disconnect", "backoff_sleep", "connecting"}

\* positions at which the generator has finished
GenFinished == {"none", "ended", "raised_not_connected", "raised_expired",
                "raised_reconnect_failed"}

\* GeminiS2STClient.__init__
LinkIdle(auto) ==
    /\ l_state = "DISCONNECTED"
    /\ l_session = FALSE
    /\ l_rtask = "none"
    /\ l_queue = 0
    /\ l_age = -1
    /\ l_stats = [error_count |-> 0, reconnection_count |-> 0,
                  chunks_sent |-> 0, bytes_sent |-> 0]
    /\ l_auto = auto
    /\ l_wire = 0
    /\ l_calls = [connects |-> 0, sleeps |-> 0]
    /\ l_rh = [state |-> "IDLE", retry_count |-> 0]
    /\ l_gen = "none"
    /\ l_delay = 0
    /\ l_raised = "none"

\* the pipeline specifications carry an idle link
LinkInit == LinkIdle(TRUE)

\* connect(): the try block ran to its end
ConnectEstablished ==
    /\ l_state' = "CONNECTED"
    /\ l_session' = TRUE
    /\ l_age' = 0
    /\ l_rtask' = "running"
    /\ UNCHANGED l_stats

\* connect(): the `except Exception` branch
ConnectRaised ==
    /\ l_stats.error_count < MaxLinkErrors
    /\ l_state' = "ERROR"
    /\ l_stats' = [l_stats EXCEPT !.error_count = @ + 1]
    /\ UNCHANGED <<l_session, l_age, l_rtask>>

ConnectOutcomes == {"ok", "network", "authentication"}

\* connect() called by the application
LinkConnect(outcome) ==
    /\ ~InReconnect
    /\ ~is_connected
    /\ IF outcome = "ok"
       THEN ConnectEstablished /\ l_raised' = "none"
       ELSE /\ ConnectRaised
            /\ l_raised' = ConnectRaises(outcome)
    /\ UNCHANGED <<l_queue, l_auto, l_wire, l_calls, l_rh, l_gen, l_delay>>
    /\ UNCHANGED nonLink

\* disconnect(): cancel the receive task, close the session, reset the state
Disconnected ==
    /\ l_rtask' = IF l_rtask = "running" THEN "done" ELSE l_rtask
    /\ l_session' = FALSE
    /\ l_state' = "DISCONNECTED"
    /\ l_age' = -1

\* disconnect() called by the application
LinkDisconnect ==
    /\ ~InReconnect
    /\ l_state # "DISCONNECTED"
    /\ Disconnected
    /\ UNCHANGED <<l_queue, l_stats, l_auto, l_wire, l_calls, l_rh, l_gen, l_delay, l_raised>>
    /\ UNCHANGED nonLink

\* what self._session.send_realtime_input() does with a chunk: it returns
\* ("none") or raises an exception with one of these messages
SendFaults == {"none", "session expired", "session closed", "token expired",
               "connection reset"}

\* the words of str(e).lower() that send_audio() looks for
Words(fault) ==
    CASE fault = "session expired" -> {"session", "expired"}
      [] fault = "session closed" -> {"session"}
      [] fault = "token expired" -> {"expired"}
      [] OTHER -> {}

\* a test for session expiry that looks for the word "expired" only
MentionsExpired(fault) == "expired" \in Words(fault)

\* send_audio(): `"session" in str(e).lower() and "expired" in str(e).lower()`
IsSessionExpiry(fault) == "session" \in Words(fault) /\ "expired" \in Words(fault)

\* send_audio(): the error its `except Exception` branch raises
SendRaises(fault) ==
    IF IsSessionExpiry(fault)
    THEN "GeminiSessionExpiredError"
    ELSE "GeminiAudioError"

\* send_audio(): the statistics after a chunk of the given length was sent
SendCounted(stats, len) ==
    [stats EXCEPT !.chunks_sent = @ + 1, !.bytes_sent = @ + len]

\* send_audio(): the statistics after the send raised
SendFailureCounted(stats, len) == [stats EXCEPT !.error_count = @ + 1]

\* send_audio() with a chunk of len bytes
send_audio(len, fault) ==
    /\ IF ~is_connected
       THEN /\ l_raised' = "GeminiConnectionError"
            /\ UNCHANGED <<l_stats, l_wire>>
       ELSE /\ l_wire < MaxSent
            /\ l_wire' = l_wire + 1
            /\ IF fault = "none"
               THEN /\ l_stats' = SendCounted(l_stats, len)
                    /\ l_raised' = "none"
               ELSE /\ l_stats.error_count < MaxLinkErrors
                    /\ l_stats' = SendFailureCounted(l_stats, len)
                    /\ l_raised' = SendRaises(fault)
    /\ UNCHANGED <<l_state, l_session, l_rtask, l_queue, l_age, l_auto, l_calls,
                   l_rh, l_gen, l_delay>>

\* send_audio() called by the application
LinkSendAudio(len, fault) == send_audio(len, fault) /\ UNCHANGED nonLink

\* _receive_loop: an audio part of a response is put on the receive queue
LinkDelivers ==
    /\ l_rtask = "running"
    /\ l_queue < MaxQueue
    /\ l_queue' = l_queue + 1
    /\ UNCHANGED <<l_state, l_session, l_rtask, l_age, l_stats, l_auto, l_wire, l_calls, l_rh,
                   l_gen, l_delay, l_raised>>
    /\ UNCHANGED nonLink

\* _receive_loop: the `except Exception` branch
LinkFaults ==
    /\ l_rtask = "running"
    /\ l_stats.error_count < MaxLinkErrors
    /\ l_state' = "ERROR"
    /\ l_stats' = [l_stats EXCEPT !.error_count = @ + 1]
    /\ l_rtask' = "done"
    /\ UNCHANGED <<l_session, l_queue, l_age, l_auto, l_wire, l_calls, l_rh, l_gen, l_delay, l_raised>>
    /\ UNCHANGED nonLink

\* _receive_loop: the response stream of the session ends
LinkStreamEnds ==
    /\ l_rtask = "running"
    /\ l_rtask' = "done"
    /\ UNCHANGED <<l_state, l_session, l_queue, l_age, l_stats, l_auto, l_wire, l_calls, l_rh,
                   l_gen, l_delay, l_raised>>
    /\ UNCHANGED nonLink

\* loop time passes while a session is open
Tick ==
    /\ l_age # -1
    /\ l_age < DEFAULT_SESSION_TIMEOUT
    /\ l_stats.reconnection_count < MaxReconnects
    /\ l_age' = Min(l_age + SessionTick, DEFAULT_SESSION_TIMEOUT)
    /\ UNCHANGED <<l_state, l_session, l_rtask, l_queue, l_stats, l_auto, l_wire, l_calls, l_rh,
                   l_gen, l_delay, l_raised>>
    /\ UNCHANGED nonLink

\* receive_audio(): the consumer starts to iterate the generator
ReceiveAudioCalled ==
    /\ l_gen \in GenFinished
    /\ l_gen' = IF is_connected THEN "waiting" ELSE "raised_not_connected"
    /\ UNCHANGED <<l_state, l_session, l_rtask, l_queue, l_age, l_stats, l_auto, l_wire, l_calls,
                   l_rh, l_delay, l_raised>>
    /\ UNCHANGED nonLink

\* receive_audio(): the pull returns a chunk, which is yielded
GenYields ==
    /\ l_gen = "waiting"
    /\ l_queue > 0
    /\ l_queue' = l_queue - 1
    /\ l_gen' = "yielded"
    /\ UNCHANGED <<l_state, l_session, l_rtask, l_age, l_stats, l_auto, l_wire, l_calls, l_rh,
                   l_delay, l_raised>>
    /\ UNCHANGED nonLink

\* receive_audio(): the consumer asks for the next chunk (`while self.is_connected`)
GenResumes ==
    /\ l_gen = "yielded"
    /\ l_gen' = IF is_connected THEN "waiting" ELSE "ended"
    /\ UNCHANGED <<l_state, l_session, l_rtask, l_queue, l_age, l_stats, l_auto, l_wire, l_calls,
                   l_rh, l_delay, l_raised>>
    /\ UNCHANGED nonLink

\* an accounting of _reconnect() that leaves reconnection_count alone
ReconnectUncounted(stats) == stats

\* _reconnect(): `self._stats.reconnection_count += 1`
ReconnectCounted(stats) == [stats EXCEPT !.reconnection_count = @ + 1]

\* a timeout handler that reconnects whatever the auto-reconnect switch says
TimeoutAlwaysReconnects(age, auto) ==
    IF should_reconnect(age) THEN "reconnect" ELSE "continue"

\* receive_audio(): what the `except asyncio.TimeoutError` branch does
TimeoutBranch(age, auto) ==
    IF should_reconnect(age)
    THEN IF auto THEN "reconnect" ELSE "raise"
    ELSE "continue"

\* receive_audio(): the pull times out after 1 s with an empty queue; on
\* "reconnect" _reconnect() runs up to the first await of disconnect()
GenTimesOut ==
    /\ l_gen = "waiting"
    /\ l_queue = 0
    /\ LET branch == TimeoutBranch(l_age, l_auto) IN
       CASE branch = "reconnect" ->
               /\ l_state' = "RECONNECTING"
               /\ l_stats' = ReconnectCounted(l_stats)
               /\ l_rtask' = IF l_rtask = "running" THEN "done" ELSE l_rtask
               /\ l_gen' = "reconnect_disconnect"
         [] branch = "raise" ->
               /\ l_gen' = "raised_expired"
               /\ UNCHANGED <<l_state, l_stats, l_rtask>>
         [] branch = "continue" ->
               /\ l_gen' = IF is_connected THEN "waiting" ELSE "ended"
               /\ UNCHANGED <<l_state, l_stats, l_rtask>>
    /\ UNCHANGED <<l_session, l_queue, l_age, l_auto, l_wire, l_calls, l_rh, l_delay, l_raised>>
    /\ UNCHANGED nonLink

\* _reconnect(): disconnect() returns, reconnect_with_backoff() starts and
\* makes its first attempt without a delay, up to the await inside connect()
GenDisconnected ==
    /\ l_gen = "reconnect_disconnect"
    /\ l_session' = FALSE
    /\ l_age' = -1
    /\ l_rh' = [state |-> "CONNECTING", retry_count |-> 0]
    /\ l_calls' = [connects |-> 1, sleeps |-> 0]
    /\ l_state' = "CONNECTING"
    /\ l_gen' = "connecting"
    /\ UNCHANGED <<l_rtask, l_queue, l_stats, l_auto, l_wire, l_delay, l_raised>>
    /\ UNCHANGED nonLink

\* reconnect_with_backoff(): the sleep before a retry ends and connect() is
\* called again
GenBackoffWakes ==
    /\ l_gen = "backoff_sleep"
    /\ l_delay' = 0
    /\ l_calls' = [l_calls EXCEPT !.connects = @ + 1]
    /\ l_state' = "CONNECTING"
    /\ l_gen' = "connecting"
    /\ UNCHANGED <<l_session, l_rtask, l_queue, l_age, l_stats, l_auto, l_wire,
                   l_rh, l_raised>>
    /\ UNCHANGED nonLink

\* reconnect_with_backoff(): an attempt returns or raises; the handler
\* returns True, returns False or computes the next delay and sleeps;
\* _reconnect() then returns to the generator's loop or raises
\* GeminiConnectionError
GenConnectReturns(outcome) ==
    /\ l_gen = "connecting"
    /\ IF outcome = "ok"
       THEN /\ ConnectEstablished
            /\ l_rh' = reset([l_rh EXCEPT !.state = "CONNECTED"])
            /\ l_gen' = "waiting"
            /\ UNCHANGED <<l_delay, l_calls>>
       ELSE /\ ConnectRaised
            /\ IF FailsImmediately(ConnectRaises(outcome))
               THEN /\ l_rh' = [l_rh EXCEPT !.state = "FAILED"]
                    /\ l_gen' = "raised_reconnect_failed"
                    /\ UNCHANGED <<l_delay, l_calls>>
               ELSE LET n == l_rh.retry_count + 1 IN
                    IF RetriesExhausted(n)
                    THEN /\ l_rh' = [state |-> "FAILED", retry_count |-> n]
                         /\ l_gen' = "raised_reconnect_failed"
                         /\ UNCHANGED <<l_delay, l_calls>>
                    ELSE /\ l_rh' = [state |-> "CONNECTING", retry_count |-> n]
                         /\ l_gen' = "backoff_sleep"
                         /\ \E jitter \in JitterPermille :
                               l_delay' = jittered_delay(n, jitter)
                         /\ l_calls' = [l_calls EXCEPT !.sleeps = @ + 1]
    /\ UNCHANGED <<l_queue, l_auto, l_wire, l_raised>>
    /\ UNCHANGED nonLink

-----------------------------------------------------------------------------
(* One direction of a running pipeline over its link: the send loop calls  *)
(* send_audio() for every captured chunk while the receive loop iterates   *)
(* receive_audio(), whose generator reconnects the link when the session   *)
(* nears its end.  The link is the one of the section above; the loops are *)
(* _outgoing_send_loop and _outgoing_receive_loop (the incoming ones are   *)
(* the same code over the other ports).                                    *)

\* TranslationPipeline.__init__
RelayInit ==
    /\ r_state = "STOPPED"
    /\ r_send = "none"
    /\ r_receive = "none"
    /\ r_stats = [errors |-> 0, audio_chunks_sent_to_gemini |-> 0]

\* the `except Exception` branch of a loop
RelayLoopFails(stats) == [stats EXCEPT !.errors = @ + 1]

\* start_outgoing() on a stopped pipeline whose connect() and ports succeed:
\* the link is connected and both loop tasks are created
RelayStarts ==
    /\ r_state = "STOPPED"
    /\ l_state = "DISCONNECTED"
    /\ ConnectEstablished
    /\ r_state' = "RUNNING"
    /\ r_send' = "running"
    /\ r_receive' = "running"
    /\ UNCHANGED <<r_stats, l_queue, l_auto, l_wire, l_calls, l_rh, l_gen, l_delay, l_raised>>
    /\ UNCHANGED nonRelay

\* the receive loop's first step: `async for audio_chunk in client.receive_audio()`
RelayReceiveStarts ==
    /\ r_receive = "running"
    /\ l_gen = "none"
    /\ ReceiveAudioCalled

\* one iteration of the send loop: the port's stream() yields a chunk and
\* `await client.send_audio(audio_chunk.data)` returns or raises
RelaySends(len, fault) ==
    /\ r_send = "running"
    /\ send_audio(len, fault)
    /\ IF l_raised' = "none"
       THEN /\ r_stats' = [r_stats EXCEPT !.audio_chunks_sent_to_gemini = @ + 1]
            /\ UNCHANGED <<r_state, r_send>>
       ELSE /\ r_stats' = RelayLoopFails(r_stats)
            /\ r_state' = "ERROR"
            /\ r_send' = "done"
    /\ UNCHANGED <<r_receive, nonRelay>>

\* the receive loop ends with its generator: a generator that returns ends
\* the loop silently, one that raises takes the `except Exception` branch
RelayReceiveEnds ==
    /\ r_receive = "running"
    /\ l_gen \in GenFinished \ {"none"}
    /\ r_receive' = "done"
    /\ IF l_gen = "ended"
       THEN UNCHANGED <<r_state, r_stats>>
       ELSE /\ r_state' = "ERROR"
            /\ r_stats' = RelayLoopFails(r_stats)
    /\ UNCHANGED <<r_send, lvars, nonRelay>>

-----------------------------------------------------------------------------
(* SessionTimeoutTracker on its own: a tracker built with any timeout, and   *)
(* a loop clock that only moves forward                                      *)

\* values of the session_timeout argument of __init__
SessionTimeouts == {20, 30, 40, DEFAULT_SESSION_TIMEOUT}

\* seconds by which the loop clock moves in one step
ClockSteps == {5, SessionTick}

\* SessionTimeoutTracker.get_session_duration
get_session_duration(start, now) ==
    IF start = -1
    THEN 0
    ELSE now - start

\* a comparison that misses the threshold itself
should_reconnect_past_threshold(timeout, start, now) ==
    IF start = -1
    THEN FALSE
    ELSE get_session_duration(start, now) > timeout - RECONNECT_BUFFER

\* SessionTimeoutTracker.should_reconnect
tracker_should_reconnect(timeout, start, now) ==
    IF start = -1
    THEN FALSE
    ELSE get_session_duration(start, now) >= timeout - RECONNECT_BUFFER

\* SessionTimeoutTracker.__init__
TrackerInit(timeout) ==
    /\ t_timeout = timeout
    /\ t_start = -1
    /\ t_now = 0

\* the other specifications carry a tracker that is never started
TrackerIdle == TrackerInit(DEFAULT_SESSION_TIMEOUT)

\* SessionTimeoutTracker.start_session
start_session ==
    /\ t_start' = t_now
    /\ UNCHANGED <<t_timeout, t_now>>
    /\ UNCHANGED nonTracker

\* SessionTimeoutTracker.end_session
end_session ==
    /\ t_start' = -1
    /\ UNCHANGED <<t_timeout, t_now>>
    /\ UNCHANGED nonTracker

\* loop time passes
ClockAdvances(step) ==
    /\ t_now + step <= MaxNow
    /\ t_now' = t_now + step
    /\ UNCHANGED <<t_timeout, t_start>>
    /\ UNCHANGED nonTracker

-----------------------------------------------------------------------------
(* BaseCaptureDevice: the capture queue between the PortAudio callback and  *)
(* the reader.  Chunks are numbered in the order the callback receives them. *)

\* asyncio.Queue.full
QueueFull(q, cap) == Len(q) >= cap

\* a queue that makes room by dropping its oldest chunk
put_drops_oldest(q, chunk, cap) ==
    IF QueueFull(q, cap)
    THEN Append(Tail(q), chunk)
    ELSE Append(q, chunk)

\* a queue that makes room by dropping its newest chunk
put_replaces_newest(q, chunk, cap) ==
    IF QueueFull(q, cap)
    THEN Append(SubSeq(q, 1, Len(q) - 1), chunk)
    ELSE Append(q, chunk)

\* _audio_callback: `self._queue.put_nowait(chunk)` with QueueFull caught
put_nowait(q, chunk, cap) ==
    IF QueueFull(q, cap)
    THEN q
    ELSE Append(q, chunk)

\* BaseCaptureDevice.__init__, with a queue of the given maxsize
CaptureInit(cap) ==
    /\ c_cap = cap
    /\ c_queue = <<>>
    /\ c_stats = [chunks_captured |-> 0, bytes_captured |-> 0, overruns |-> 0]
    /\ c_flags = 0
    /\ c_reads = 0

\* the other specifications carry a capture device that is never started
CaptureIdle == CaptureInit(MaxCapacity)

\* _audio_callback, called by PortAudio with len bytes of audio and status
\* flags that carry paInputOverflow or not; time_info has its ADC time.
\* The on_data coroutine it may schedule runs on the event loop and does not
\* touch the queue or the statistics.
audio_callback(len, overflow) ==
    /\ c_stats.chunks_captured < MaxPushed
    /\ LET flagged == IF overflow THEN 1 ELSE 0
           dropped == IF QueueFull(c_queue, c_cap) THEN 1 ELSE 0
           chunk == c_stats.chunks_captured + 1
       IN /\ c_queue' = put_nowait(c_queue, chunk, c_cap)
          /\ c_stats' = [chunks_captured |-> chunk,
                         bytes_captured |-> c_stats.bytes_captured + len,
                         overruns |-> c_stats.overruns + flagged + dropped]
          /\ c_flags' = c_flags + flagged
    /\ UNCHANGED <<c_cap, c_reads>>

\* the callback of a capture device of the base class
AudioCallback(len, overflow) == audio_callback(len, overflow) /\ UNCHANGED nonCapture

\* read_chunk: `self._queue.get()` returns the oldest chunk
ReadChunk ==
    /\ c_queue # <<>>
    /\ c_queue' = Tail(c_queue)
    /\ c_reads' = c_reads + 1
    /\ UNCHANGED <<c_cap, c_stats, c_flags>>
    /\ UNCHANGED nonCapture

-----------------------------------------------------------------------------
(* SystemAudioCapture: the callback that turns the two channels of the     *)
(* loopback device into one before BaseCaptureDevice._audio_callback makes *)
(* the chunk.  in_data is taken as its sequence of int16 samples, the two  *)
(* samples of a frame next to each other.                                  *)

\* samples explored: the ends of the int16 range and values around zero
Samples == {-32768, -1, 0, 3, 32767}
\* frames per buffer explored
FrameCounts == {1, 2}

\* the buffers PortAudio can hand to the callback of a stream of n channels
Buffers(channels) ==
    UNION {[1..(frames * channels) -> Samples] : frames \in FrameCounts}

\* `audio_array.mean(axis=1)`: the float64 mean of a frame, kept as twice
\* its value (the sum of the two samples, which float64 holds exactly)
twice_mean(left, right) == left + right

\* `.astype(np.int16)` of a float64 given as twice its value: the fraction
\* is cut off (toward zero) and the result kept in 16 bits
astype_int16(twice) ==
    LET cut == IF twice >= 0 THEN twice \div 2 ELSE -((-twice) \div 2)
    IN ((cut + 32768) % 65536) - 32768

\* `np.frombuffer(...).reshape(-1, 2).mean(axis=1).astype(np.int16)`
to_mono(in_data) ==
    [i \in 1..(Len(in_data) \div 2) |->
        astype_int16(twice_mean(in_data[2 * i - 1], in_data[2 * i]))]

\* SystemAudioCapture.__init__
MonoInit(stereo_to_mono) ==
    /\ m_stereo = stereo_to_mono
    /\ m_input_channels = (IF stereo_to_mono THEN 2 ELSE 1)
    /\ m_channels = (IF stereo_to_mono THEN 2 ELSE 1)
    /\ m_in = <<>>
    /\ m_chunk = <<>>

MonoIdle == MonoInit(TRUE)

\* SystemAudioCapture._audio_callback with a buffer of the stream and its
\* frame_count: the conversion, the callback of the base class with
\* self._channels set to 1, and the restoring of self._channels
SystemAudioCallback(in_data, overflow) ==
    /\ c_stats.chunks_captured < MaxMonoChunks
    /\ LET converts == m_stereo /\ m_input_channels = 2
           frame_count == Len(in_data) \div m_input_channels
           data == IF converts THEN to_mono(in_data) ELSE in_data
           original_channels == m_channels
       IN /\ m_in' = in_data
          /\ m_chunk' = <<[data |-> data,
                          channels |-> IF converts THEN 1 ELSE m_channels,
                          frames |-> frame_count]>>
          /\ audio_callback(2 * Len(data), overflow)
          /\ m_channels' = original_channels
    /\ UNCHANGED <<m_stereo, m_input_channels, nonMono>>

-----------------------------------------------------------------------------
(* BaseCaptureDevice / BasePlaybackDevice: one audio port over its life.    *)
(* start(), stop() and _cleanup() have no await that suspends, so each call *)
(* is one step on the event loop.  The PortAudio callback and the executor  *)
(* thread of a blocking write run on threads of their own and take their    *)
(* steps between the calls.                                                 *)

PortKinds == {"capture", "playback"}
PortState == {"STOPPED", "STARTING", "RUNNING", "STOPPING", "ERROR"}
DeviceIndexes == {"none", "valid", "invalid"}

\* BasePlaybackDevice.__init__: `self._prebuffer_size = 2`
PREBUFFER_SIZE == 2

\* `bytes_per_chunk = chunk_size * channels * (BIT_DEPTH // 8)`, scaled down
\* from 1024 * 1 * 2 bytes to 2
BytesPerChunk == 2

\* lengths of the data a producer passes to write_chunk / write_chunk_nowait:
\* empty, shorter than a buffer, one buffer
WriteLens == 0..BytesPerChunk

\* the sizes explored for `queue.Queue(maxsize=100)`: one that the prebuffer
\* fills and one with room for a buffer more
PortQueueSizes == {PREBUFFER_SIZE, PREBUFFER_SIZE + 1}

\* `self._silence = bytes(bytes_per_chunk)`: a buffer of zero bytes
Silence == [len |-> BytesPerChunk, zero |-> TRUE]

\* audio data of the given length that is not silence
Audio(len) == [len |-> len, zero |-> FALSE]

\* the stream error of the two port classes
StreamError(kind) ==
    IF kind = "capture" THEN "AudioStreamError" ELSE "PlaybackStreamError"

\* the counters as __init__ sets them
ZeroStats(kind) ==
    IF kind = "capture"
    THEN [chunks_captured |-> 0, bytes_captured |-> 0, overruns |-> 0]
    ELSE [chunks_played |-> 0, bytes_played |-> 0, underruns |-> 0]

\* __init__ of a port of the given class, device index and queue size
PortInit(kind, index, cap) ==
    /\ a_kind = kind
    /\ a_index = index
    /\ a_cap = cap
    /\ a_state = "STOPPED"
    /\ a_pyaudio = FALSE
    /\ a_stream = "none"
    /\ a_queue = <<>>
    /\ a_stats = ZeroStats(kind)
    /\ a_pushed = <<>>
    /\ a_read = <<>>
    /\ a_flags = 0
    /\ a_out = <<>>
    /\ a_writer = <<>>
    /\ a_calls = 0
    /\ a_raised = "none"

\* the other specifications carry a port that is never started
PortIdle == PortInit("capture", "none", MaxCapacity)

\* the steps of _cleanup() that can raise
CleanupFaults == {"none", "stop_stream", "close", "terminate"}

\* _cleanup() on a port that holds [stream, pyaudio, queue]: one try block
\* around stop_stream(), close(), terminate() and, on a playback port, the
\* loop that empties the queue; the first step that raises ends the block
\* and the exception is logged
cleanup(kind, held, fault) ==
    LET stopFails == held.stream = "active" /\ fault = "stop_stream"
        closeFails == held.stream # "none" /\ ~stopFails /\ fault = "close"
        terminateFails ==
            held.pyaudio /\ ~stopFails /\ ~closeFails /\ fault = "terminate"
        failed == stopFails \/ closeFails \/ terminateFails
    IN [stream |-> IF stopFails THEN "active"
                   ELSE IF closeFails THEN "stopped" ELSE "none",
        pyaudio |-> held.pyaudio /\ failed,
        queue |-> IF kind = "playback" /\ ~failed THEN <<>> ELSE held.queue]

\* the prebuffer loop of BasePlaybackDevice.start(): n times
\* `self._queue.put_nowait(self._silence)` with queue.Full passed over
RECURSIVE prebuffer(_, _, _)
prebuffer(q, n, cap) ==
    IF n = 0 THEN q ELSE prebuffer(put_nowait(q, Silence, cap), n - 1, cap)

\* what a failed start() raises: `except Exception as e: ... raise
\* AudioStreamError(...)` wraps whatever was raised in the try block, the
\* device error of an invalid index included
start_raises(kind, invalid) == StreamError(kind)

\* a start() that only refuses a RUNNING port
start_refused_when_running(state) == state = "RUNNING"

\* the guard of start(): `if self._state != STOPPED: raise`
start_refused(state) == state # "STOPPED"

\* what PortAudio can do with a start()
StartOutcomes == {"ok", "open_fails", "start_stream_fails"}

\* start().  outcome is what the driver does with open() and start_stream(),
\* fault what it does with the _cleanup() of a failed start.
PortStart(outcome, fault) ==
    /\ a_calls < MaxPortCalls
    /\ a_calls' = a_calls + 1
    /\ IF start_refused(a_state)
       THEN /\ a_raised' = StreamError(a_kind)
            /\ UNCHANGED <<a_state, a_pyaudio, a_stream, a_queue>>
       ELSE LET invalid == a_index = "invalid"
                opened == ~invalid /\ outcome # "open_fails"
                started == opened /\ outcome = "ok"
                queued == IF a_kind = "playback" /\ ~invalid
                          THEN prebuffer(a_queue, PREBUFFER_SIZE, a_cap)
                          ELSE a_queue
                held == [stream |-> IF opened THEN "stopped" ELSE a_stream,
                         pyaudio |-> TRUE,
                         queue |-> queued]
                cleaned == cleanup(a_kind, held, fault)
            IN IF started
               THEN /\ a_state' = "RUNNING"
                    /\ a_pyaudio' = TRUE
                    /\ a_stream' = "active"
                    /\ a_queue' = queued
                    /\ a_raised' = "none"
               ELSE /\ a_state' = "ERROR"
                    /\ a_pyaudio' = cleaned.pyaudio
                    /\ a_stream' = cleaned.stream
                    /\ a_queue' = cleaned.queue
                    /\ a_raised' = start_raises(a_kind, invalid)
    /\ UNCHANGED <<a_kind, a_index, a_cap, a_stats, a_pushed, a_read, a_flags, a_out, a_writer>>
    /\ UNCHANGED nonPort

\* a stop() that cleans up whatever the state
stop_always_cleans(state) == FALSE

\* the guard of stop(): `if self._state == STOPPED: return`
stop_returns_at_once(state) == state = "STOPPED"

\* stop(): returns at once on a STOPPED port, else STOPPING, _cleanup(),
\* STOPPED
PortStop(fault) ==
    /\ a_calls < MaxPortCalls
    /\ a_calls' = a_calls + 1
    /\ a_raised' = "none"
    /\ IF stop_returns_at_once(a_state)
       THEN UNCHANGED <<a_state, a_pyaudio, a_stream, a_queue>>
       ELSE LET cleaned == cleanup(a_kind,
                                   [stream |-> a_stream, pyaudio |-> a_pyaudio,
                                    queue |-> a_queue],
                                   fault)
            IN /\ a_state' = "STOPPED"
               /\ a_pyaudio' = cleaned.pyaudio
               /\ a_stream' = cleaned.stream
               /\ a_queue' = cleaned.queue
    /\ UNCHANGED <<a_kind, a_index, a_cap, a_stats, a_pushed, a_read, a_flags, a_out, a_writer>>
    /\ UNCHANGED nonPort

\* BaseCaptureDevice._audio_callback, called by PortAudio on an active input
\* stream with len bytes of audio.  The chunk carries the number of the
\* callback that made it and its data.
CaptureCallback(len, overflow) ==
    /\ a_kind = "capture"
    /\ a_stream = "active"
    /\ a_stats.chunks_captured < MaxPortChunks
    /\ LET flagged == IF overflow THEN 1 ELSE 0
           dropped == IF QueueFull(a_queue, a_cap) THEN 1 ELSE 0
           chunk == [id |-> a_stats.chunks_captured + 1, len |-> len]
       IN /\ a_queue' = put_nowait(a_queue, chunk, a_cap)
          /\ a_stats' = [chunks_captured |-> a_stats.chunks_captured + 1,
                         bytes_captured |-> a_stats.bytes_captured + len,
                         overruns |-> a_stats.overruns + flagged + dropped]
          /\ a_pushed' = Append(a_pushed, chunk)
    /\ UNCHANGED <<a_kind, a_index, a_cap, a_state, a_pyaudio, a_stream,
                   a_read, a_flags, a_out, a_writer, a_calls, a_raised>>
    /\ UNCHANGED nonPort

\* a queue that hands out its newest item first
queue_get_newest(q) == [item |-> q[Len(q)], rest |-> SubSeq(q, 1, Len(q) - 1)]

\* asyncio.Queue.get on a queue that is not empty: the oldest item leaves
queue_get(q) == [item |-> Head(q), rest |-> Tail(q)]

\* read_chunk(): raises unless RUNNING, else `await self._queue.get()`, which
\* returns the oldest chunk once there is one
PortReadChunk ==
    /\ a_kind = "capture"
    /\ IF a_state # "RUNNING"
       THEN /\ a_raised' = StreamError(a_kind)
            /\ UNCHANGED <<a_queue, a_read>>
       ELSE /\ a_queue # <<>>
            /\ a_queue' = queue_get(a_queue).rest
            /\ a_read' = Append(a_read, queue_get(a_queue).item)
            /\ a_raised' = "none"
    /\ UNCHANGED <<a_kind, a_index, a_cap, a_state, a_pyaudio, a_stream,
                   a_stats, a_flags, a_pushed, a_out, a_writer, a_calls>>
    /\ UNCHANGED nonPort

\* a playback callback that hands the driver nothing when it has nothing
playback_buffer_or_nothing(q) == IF q = <<>> THEN Audio(0) ELSE Head(q)

\* the buffer BasePlaybackDevice._audio_callback returns: the oldest buffer
\* of the queue as it was written, or silence on queue.Empty
playback_buffer(q) == IF q = <<>> THEN Silence ELSE Head(q)

\* BasePlaybackDevice._audio_callback, called by PortAudio on an active
\* output stream; underflow is paOutputUnderflow in the status flags
PlaybackCallback(underflow) ==
    /\ a_kind = "playback"
    /\ a_stream = "active"
    /\ a_stats.underruns < MaxUnderruns
    /\ LET flagged == IF underflow THEN 1 ELSE 0 IN
       IF a_queue = <<>>
       THEN /\ a_stats' = [a_stats EXCEPT !.underruns = @ + flagged + 1]
            /\ UNCHANGED a_queue
       ELSE /\ a_stats' = [chunks_played |-> a_stats.chunks_played + 1,
                           bytes_played |-> a_stats.bytes_played + Head(a_queue).len,
                           underruns |-> a_stats.underruns + flagged]
            /\ a_queue' = Tail(a_queue)
    /\ a_out' = <<[data |-> playback_buffer(a_queue), flag |-> "paContinue"]>>
    /\ a_flags' = a_flags + (IF underflow THEN 1 ELSE 0)
    /\ UNCHANGED <<a_kind, a_index, a_cap, a_state, a_pyaudio, a_stream,
                   a_pushed, a_read, a_writer, a_calls, a_raised>>
    /\ UNCHANGED nonPort

\* buffers written to the port so far: played, queued or waiting to be put
Written == a_stats.chunks_played + Len(a_queue) + Len(a_writer)

\* write_chunk_nowait(audio_data): False unless RUNNING; put_nowait with
\* queue.Full answered by False
write_chunk_nowait(len) ==
    /\ a_kind = "playback"
    /\ Written < MaxWrites + PREBUFFER_SIZE
    /\ a_queue' = IF a_state = "RUNNING"
                  THEN put_nowait(a_queue, Audio(len), a_cap)
                  ELSE a_queue
    /\ a_raised' = "none"
    /\ UNCHANGED <<a_kind, a_index, a_cap, a_state, a_pyaudio, a_stream,
                   a_stats, a_pushed, a_read, a_flags, a_out, a_writer, a_calls>>

\* write_chunk_nowait(audio_data) called by a producer
WriteChunkNowait(len) == write_chunk_nowait(len) /\ UNCHANGED nonPort

\* write_chunk(audio_data) without a timeout: raises unless RUNNING, else
\* `self._queue.put(audio_data, block=True)` on an executor thread, which
\* waits there while the queue is full
WriteChunk(len) ==
    /\ a_kind = "playback"
    /\ a_writer = <<>>
    /\ Written < MaxWrites + PREBUFFER_SIZE
    /\ IF a_state # "RUNNING"
       THEN /\ a_raised' = StreamError(a_kind)
            /\ UNCHANGED <<a_queue, a_writer>>
       ELSE /\ a_raised' = "none"
            /\ IF QueueFull(a_queue, a_cap)
               THEN /\ a_writer' = <<Audio(len)>>
                    /\ UNCHANGED a_queue
               ELSE /\ a_queue' = Append(a_queue, Audio(len))
                    /\ UNCHANGED a_writer
    /\ UNCHANGED <<a_kind, a_index, a_cap, a_state, a_pyaudio, a_stream,
                   a_stats, a_pushed, a_read, a_flags, a_out, a_calls>>
    /\ UNCHANGED nonPort

\* the executor thread blocked in queue.put() gets its room: the put does
\* not look at the state of the port
WriterPuts ==
    /\ a_writer # <<>>
    /\ ~QueueFull(a_queue, a_cap)
    /\ a_queue' = Append(a_queue, Head(a_writer))
    /\ a_writer' = <<>>
    /\ UNCHANGED <<a_kind, a_index, a_cap, a_state, a_pyaudio, a_stream,
                   a_stats, a_pushed, a_read, a_flags, a_out, a_calls, a_raised>>
    /\ UNCHANGED nonPort

-----------------------------------------------------------------------------
(* The users of an audio port: a consumer iterating stream() on a capture   *)
(* port, and producers calling write_chunk_nowait() and                     *)
(* write_chunk(data, timeout) on a playback port.  The port is the one of   *)
(* the section above.                                                       *)

\* stream(): `while self.is_running`
stream_goes_on(state) == state = "RUNNING"

\* a stream() whose `except asyncio.TimeoutError` branch leaves the loop
timeout_ends_stream(state) == "ended"

\* stream(): `except asyncio.TimeoutError: continue`, back to the loop test
after_timeout(state) == IF stream_goes_on(state) THEN "reading" ELSE "ended"

\* positions of the consumer at which it is inside the iteration
Iterating == {"reading", "yielded"}

\* no consumer, no write in progress
UsersIdle ==
    /\ u_iter = "none"
    /\ u_ret = "none"
    /\ u_call = "none"

\* the consumer starts `async for chunk in port.stream()`, or asks for the
\* next chunk after a yield: the loop test, then read_chunk(timeout=1.0)
\* up to its `await asyncio.wait_for(self._queue.get(), ...)`
StreamAdvances ==
    /\ a_kind = "capture"
    /\ u_iter \in {"none", "yielded"}
    /\ u_iter' = IF stream_goes_on(a_state) THEN "reading" ELSE "ended"
    /\ UNCHANGED <<u_ret, u_call, avars, nonPortUse>>

\* the pending get returns the oldest chunk and stream() yields it; the get
\* does not look at the state of the port
StreamYields ==
    /\ u_iter = "reading"
    /\ a_queue # <<>>
    /\ a_queue' = queue_get(a_queue).rest
    /\ a_read' = Append(a_read, queue_get(a_queue).item)
    /\ u_iter' = "yielded"
    /\ UNCHANGED <<a_kind, a_index, a_cap, a_state, a_pyaudio, a_stream, a_stats,
                   a_pushed, a_flags, a_out, a_writer, a_calls, a_raised>>
    /\ UNCHANGED <<u_ret, u_call, nonPortUse>>

\* no chunk arrives for the second of the read timeout
StreamTimesOut ==
    /\ u_iter = "reading"
    /\ a_queue = <<>>
    /\ u_iter' = after_timeout(a_state)
    /\ UNCHANGED <<u_ret, u_call, avars, nonPortUse>>

\* a write_chunk_nowait() that only looks at the state of the port
returns_true_if_running(state, q, cap) ==
    IF state = "RUNNING" THEN "True" ELSE "False"

\* what write_chunk_nowait() returns
write_chunk_nowait_returns(state, q, cap) ==
    IF state # "RUNNING" THEN "False"
    ELSE IF QueueFull(q, cap) THEN "False" ELSE "True"

\* write_chunk_nowait(audio_data) with its return value
NowaitReturns(len) ==
    /\ write_chunk_nowait(len)
    /\ u_ret' = write_chunk_nowait_returns(a_state, a_queue, a_cap)
    /\ UNCHANGED <<u_iter, u_call, nonPortUse>>

\* write_chunk(audio_data, timeout): raises unless RUNNING, else hands
\* `self._queue.put(audio_data, block=True, timeout=timeout)` to an executor
\* thread and awaits it under asyncio.wait_for(..., timeout=timeout)
TimedWrite(len) ==
    /\ a_kind = "playback"
    /\ a_writer = <<>>
    /\ u_call # "waiting"
    /\ Written < MaxWrites + PREBUFFER_SIZE
    /\ IF a_state # "RUNNING"
       THEN /\ u_call' = StreamError(a_kind)
            /\ UNCHANGED a_writer
       ELSE /\ u_call' = "waiting"
            /\ a_writer' = <<Audio(len)>>
    /\ UNCHANGED <<a_kind, a_index, a_cap, a_state, a_pyaudio, a_stream, a_queue,
                   a_stats, a_pushed, a_read, a_flags, a_out, a_calls, a_raised>>
    /\ UNCHANGED <<u_iter, u_ret, nonPortUse>>

\* the executor thread's put finds room: the buffer is queued; a caller that
\* still waits returns normally, one whose wait_for has expired has already
\* got its TimeoutError
TimedPutLands ==
    /\ a_writer # <<>>
    /\ u_call \in {"waiting", "TimeoutError"}
    /\ ~QueueFull(a_queue, a_cap)
    /\ a_queue' = Append(a_queue, Head(a_writer))
    /\ a_writer' = <<>>
    /\ u_call' = IF u_call = "waiting" THEN "returned" ELSE u_call
    /\ UNCHANGED <<a_kind, a_index, a_cap, a_state, a_pyaudio, a_stream,
                   a_stats, a_pushed, a_read, a_flags, a_out, a_calls, a_raised>>
    /\ UNCHANGED <<u_iter, u_ret, nonPortUse>>

\* the timer of asyncio.wait_for fires on the event loop while the thread is
\* still blocked in queue.put(): the caller gets TimeoutError; a thread that
\* runs cannot be cancelled and keeps waiting for its own timeout, which it
\* started when the thread began to run
WaitForExpires ==
    /\ a_writer # <<>>
    /\ u_call = "waiting"
    /\ QueueFull(a_queue, a_cap)
    /\ u_call' = "TimeoutError"
    /\ UNCHANGED <<u_iter, u_ret, avars, nonPortUse>>

\* the timeout of queue.put() ends in the thread: it raises queue.Full,
\* which a caller that still waits gets in place of a TimeoutError
PutExpires ==
    /\ a_writer # <<>>
    /\ u_call \in {"waiting", "TimeoutError"}
    /\ QueueFull(a_queue, a_cap)
    /\ a_writer' = <<>>
    /\ u_call' = IF u_call = "waiting" THEN "Full" ELSE u_call
    /\ UNCHANGED <<a_kind, a_index, a_cap, a_state, a_pyaudio, a_stream, a_queue,
                   a_stats, a_pushed, a_read, a_flags, a_out, a_calls, a_raised>>
    /\ UNCHANGED <<u_iter, u_ret, nonPortUse>>

-----------------------------------------------------------------------------
(* GeminiS2STClient._receive_loop: what one response of the session does to *)
(* the transcript buffers.  A response is taken in one step: the only await *)
(* in its processing is the put on the receive queue (maxsize 100), which   *)
(* does not fill with the responses explored here.                          *)

\* `part.text` of a part of the model turn ("" is falsy)
PartTexts == {"", "hola", "mundo"}
\* a part of `response.server_content.model_turn.parts`
Parts == [inline_data : BOOLEAN, text : PartTexts]
\* `getattr(response, "input_transcription", None)`, "none" for None
InputTranscriptions == {"none", "hello"}
\* a response of `self._session.receive()`; parts = <<>> when it has no model turn
Responses ==
    [parts : {<<>>} \cup {<<p>> : p \in Parts}
                    \cup {<<p, q>> : p \in {x \in Parts : x.text # ""},
                                     q \in {x \in Parts : ~x.inline_data}},
     input : InputTranscriptions]

\* the texts `for part in ...parts: if part.text: ...append(part.text)` appends
RECURSIVE part_texts(_)
part_texts(parts) ==
    IF parts = <<>> THEN <<>>
    ELSE (IF Head(parts).text # "" THEN <<Head(parts).text>> ELSE <<>>)
         \o part_texts(Tail(parts))

\* the parts with `part.inline_data`
RECURSIVE audio_parts(_)
audio_parts(parts) ==
    IF parts = <<>> THEN 0
    ELSE (IF Head(parts).inline_data THEN 1 ELSE 0) + audio_parts(Tail(parts))

\* what the loop appends to self._output_transcription for a response
output_appended(enable, response) == part_texts(response.parts)

\* what the loop appends to self._input_transcription for a response
input_appended(enable, response) ==
    IF enable /\ response.input # "none" THEN <<response.input>> ELSE <<>>

\* GeminiS2STClient.__init__ with GeminiConfig(enable_transcription=enable)
ScriptInit(enable) ==
    /\ s_enable = enable
    /\ s_input = <<>>
    /\ s_output = <<>>
    /\ s_received = 0
    /\ s_responses = 0

ScriptIdle == ScriptInit(FALSE)

\* one iteration of `async for response in self._session.receive()`
ReceiveResponse(response) ==
    /\ s_responses < MaxResponses
    /\ s_responses' = s_responses + 1
    /\ s_received' = s_received + audio_parts(response.parts)
    /\ s_output' = s_output \o output_appended(s_enable, response)
    /\ s_input' = s_input \o input_appended(s_enable, response)
    /\ UNCHANGED <<s_enable, nonScript>>

\* clear_transcriptions()
ClearTranscriptions ==
    /\ s_input \o s_output # <<>>
    /\ s_input' = <<>>
    /\ s_output' = <<>>
    /\ UNCHANGED <<s_enable, s_received, s_responses, nonScript>>

-----------------------------------------------------------------------------
(* TranslationPipeline: specification                                       *)

\* TranslationPipeline.__init__
PipeInit(starts) ==
    /\ p_state = "STOPPED"
    /\ p_mode = "NONE"
    /\ p_stats = [audio_chunks_captured |-> 0, audio_chunks_sent_to_gemini |-> 0,
                  audio_chunks_received_from_gemini |-> 0, audio_chunks_played |-> 0,
                  errors |-> 0]
    /\ p_pc = Idle
    /\ p_task = [n \in TaskNames |-> [st |-> "none", client |-> "dropped"]]
    /\ p_leaked = [k \in LeakKeys |-> 0]
    /\ p_port = [f \in PortNames |-> "NONE"]
    /\ p_leakedPorts = [f \in PortNames |-> 0]
    /\ p_client = [c \in ClientNames |-> NoClient]
    /\ p_starts = starts
    /\ p_faults = 0

InitPipe == PipeInit(MaxStarts) /\ LinkInit /\ TrackerIdle /\ CaptureIdle /\ PortIdle /\ ScriptIdle /\ RelayInit /\ UsersIdle /\ MonoIdle

NextPipe ==
    \/ StartOutgoing /\ UNCHANGED nonPipe
    \/ StartIncoming /\ UNCHANGED nonPipe
    \/ StartBidirectional /\ UNCHANGED nonPipe
    \/ ConnectSucceeds /\ UNCHANGED nonPipe
    \/ ConnectFails /\ UNCHANGED nonPipe
    \/ \E d \in Directions, o \in RunOutcomes : RunSingle(d, o) /\ UNCHANGED nonPipe
    \/ \E d \in Directions, o \in RunOutcomes : RunGathered(d, o) /\ UNCHANGED nonPipe
    \/ GatherReturns /\ UNCHANGED nonPipe
    \/ GatherRaises /\ UNCHANGED nonPipe
    \/ Stop /\ UNCHANGED nonPipe
    \/ CleanupCancel /\ UNCHANGED nonPipe
    \/ CleanupAwaited /\ UNCHANGED nonPipe
    \/ CleanupStopPort /\ UNCHANGED nonPipe
    \/ StopDisconnect /\ UNCHANGED nonPipe
    \/ \E t \in TaskInstances : SendLoopForwards(t) /\ UNCHANGED nonPipe
    \/ \E t \in TaskInstances : SendLoopFails(t) /\ UNCHANGED nonPipe
    \/ \E t \in TaskInstances : ReceiveLoopStarts(t) /\ UNCHANGED nonPipe
    \/ \E t \in TaskInstances : ReceiveLoopPlays(t) /\ UNCHANGED nonPipe
    \/ \E t \in TaskInstances : ReceiveLoopEnds(t) /\ UNCHANGED nonPipe
    \/ \E c \in ClientNames : ClientDelivers(c) /\ UNCHANGED nonPipe
    \/ \E c \in ClientNames : ClientFaults(c) /\ UNCHANGED nonPipe

SpecPipe == InitPipe /\ [][NextPipe]_vars

\* The restart scenario: a user who answers every loop failure with another
\* start call.  Devices and connects always succeed, links never fault and no
\* audio flows; the pipeline is explored over MaxRestarts start calls.
InitRestart ==
    PipeInit(MaxRestarts) /\ LinkInit /\ TrackerIdle /\ CaptureIdle /\ PortIdle /\ ScriptIdle /\ RelayInit /\ UsersIdle /\ MonoIdle

NextRestart ==
    \/ StartOutgoing /\ UNCHANGED nonPipe
    \/ StartIncoming /\ UNCHANGED nonPipe
    \/ StartBidirectional /\ UNCHANGED nonPipe
    \/ ConnectSucceeds /\ UNCHANGED nonPipe
    \/ \E d \in Directions : RunSingle(d, "ok") /\ UNCHANGED nonPipe
    \/ \E d \in Directions : RunGathered(d, "ok") /\ UNCHANGED nonPipe
    \/ GatherReturns /\ UNCHANGED nonPipe
    \/ Stop /\ UNCHANGED nonPipe
    \/ CleanupCancel /\ UNCHANGED nonPipe
    \/ CleanupAwaited /\ UNCHANGED nonPipe
    \/ CleanupStopPort /\ UNCHANGED nonPipe
    \/ StopDisconnect /\ UNCHANGED nonPipe
    \/ \E t \in TaskInstances : SendLoopFails(t) /\ UNCHANGED nonPipe
    \/ \E t \in TaskInstances : ReceiveLoopStarts(t) /\ UNCHANGED nonPipe
    \/ \E t \in TaskInstances : ReceiveLoopEnds(t) /\ UNCHANGED nonPipe

SpecRestart == InitRestart /\ [][NextRestart]_vars

-----------------------------------------------------------------------------
(* GeminiS2STClient: specification                                          *)

InitLink ==
    /\ PipeInit(MaxStarts)
    /\ \E auto \in BOOLEAN : LinkIdle(auto)
    /\ TrackerIdle
    /\ CaptureIdle
    /\ PortIdle /\ ScriptIdle /\ RelayInit /\ UsersIdle /\ MonoIdle

LinkConnects == \E outcome \in ConnectOutcomes : LinkConnect(outcome)
LinkSends == \E len \in ChunkLens, fault \in SendFaults : LinkSendAudio(len, fault)
GenConnects == \E outcome \in ConnectOutcomes : GenConnectReturns(outcome)

NextLink ==
    \/ LinkConnects
    \/ LinkDisconnect
    \/ LinkSends
    \/ LinkDelivers
    \/ LinkFaults
    \/ LinkStreamEnds
    \/ Tick
    \/ ReceiveAudioCalled
    \/ GenYields
    \/ GenResumes
    \/ GenTimesOut
    \/ GenDisconnected
    \/ GenBackoffWakes
    \/ GenConnects

SpecLink == InitLink /\ [][NextLink]_vars

\* The event loop runs every coroutine that is ready, and a timer that is
\* due fires: each step of the generator that stays enabled is taken.  The
\* application and the remote side are under no obligation.
LinkFairness ==
    /\ WF_vars(GenYields)
    /\ WF_vars(GenResumes)
    /\ WF_vars(GenTimesOut)
    /\ WF_vars(GenDisconnected)
    /\ WF_vars(GenBackoffWakes)
    /\ WF_vars(GenConnects)

SpecLinkFair == InitLink /\ [][NextLink]_vars /\ LinkFairness

-----------------------------------------------------------------------------
(* SessionTimeoutTracker: specification                                     *)

InitTracker ==
    /\ PipeInit(MaxStarts)
    /\ LinkInit
    /\ \E timeout \in SessionTimeouts : TrackerInit(timeout)
    /\ CaptureIdle
    /\ PortIdle /\ ScriptIdle /\ RelayInit /\ UsersIdle /\ MonoIdle

ClockTicks == \E step \in ClockSteps : ClockAdvances(step)

NextTracker ==
    \/ start_session
    \/ end_session
    \/ ClockTicks

SpecTracker == InitTracker /\ [][NextTracker]_vars

-----------------------------------------------------------------------------
(* BaseCaptureDevice: specification                                        *)

InitCapture ==
    /\ PipeInit(MaxStarts)
    /\ LinkInit
    /\ TrackerIdle
    /\ \E cap \in 1..MaxCapacity : CaptureInit(cap)
    /\ PortIdle /\ ScriptIdle /\ RelayInit /\ UsersIdle /\ MonoIdle

AudioCallbacks ==
    \E len \in ChunkLens, overflow \in BOOLEAN : AudioCallback(len, overflow)

NextCapture ==
    \/ AudioCallbacks
    \/ ReadChunk

SpecCapture == InitCapture /\ [][NextCapture]_vars

-----------------------------------------------------------------------------
(* Audio port: specification                                               *)

InitPort ==
    /\ PipeInit(MaxStarts)
    /\ LinkInit
    /\ TrackerIdle
    /\ CaptureIdle /\ ScriptIdle /\ RelayInit /\ UsersIdle /\ MonoIdle
    /\ \E kind \in PortKinds, index \in DeviceIndexes, cap \in PortQueueSizes :
          PortInit(kind, index, cap)

\* _cleanup() only runs in a start() that fails
StartFaults(outcome) ==
    IF outcome = "ok" /\ a_index # "invalid" THEN {"none"} ELSE CleanupFaults

PortStarts ==
    \E outcome \in StartOutcomes :
      \E fault \in StartFaults(outcome) : PortStart(outcome, fault)
PortStops == \E fault \in CleanupFaults : PortStop(fault)
CaptureCallbacks ==
    \E len \in ChunkLens, overflow \in BOOLEAN : CaptureCallback(len, overflow)
PlaybackCallbacks == \E underflow \in BOOLEAN : PlaybackCallback(underflow)
NowaitWrites == \E len \in WriteLens : WriteChunkNowait(len)
BlockingWrites == \E len \in WriteLens : WriteChunk(len)

NextPort ==
    \/ PortStarts
    \/ PortStops
    \/ CaptureCallbacks
    \/ PortReadChunk
    \/ PlaybackCallbacks
    \/ NowaitWrites
    \/ BlockingWrites
    \/ WriterPuts

SpecPort == InitPort /\ [][NextPort]_vars

-----------------------------------------------------------------------------
(* Transcript buffers: specification                                       *)

InitScript ==
    /\ PipeInit(MaxStarts)
    /\ LinkInit
    /\ TrackerIdle
    /\ CaptureIdle
    /\ PortIdle
    /\ RelayInit
    /\ UsersIdle /\ MonoIdle
    /\ \E enable \in BOOLEAN : ScriptInit(enable)

ReceiveResponses == \E response \in Responses : ReceiveResponse(response)

NextScript ==
    \/ ReceiveResponses
    \/ ClearTranscriptions

SpecScript == InitScript /\ [][NextScript]_vars

-----------------------------------------------------------------------------
(* One direction over its link: specification                              *)

InitRelay ==
    /\ PipeInit(MaxStarts)
    /\ LinkIdle(TRUE)
    /\ TrackerIdle
    /\ CaptureIdle
    /\ PortIdle
    /\ ScriptIdle
    /\ UsersIdle /\ MonoIdle
    /\ RelayInit

RelaySend == \E len \in ChunkLens, fault \in SendFaults : RelaySends(len, fault)

NextRelay ==
    \/ RelayStarts
    \/ RelayReceiveStarts
    \/ RelaySend
    \/ RelayReceiveEnds
    \/ LinkDelivers
    \/ LinkFaults
    \/ Tick
    \/ GenYields
    \/ GenResumes
    \/ GenTimesOut
    \/ GenDisconnected
    \/ GenBackoffWakes
    \/ GenConnects

SpecRelay == InitRelay /\ [][NextRelay]_vars

-----------------------------------------------------------------------------
(* A capture port and the consumer of its stream(): specification          *)

InitStream ==
    /\ PipeInit(MaxStarts)
    /\ LinkInit
    /\ TrackerIdle
    /\ CaptureIdle
    /\ ScriptIdle
    /\ RelayInit
    /\ UsersIdle /\ MonoIdle
    /\ \E cap \in PortQueueSizes : PortInit("capture", "none", cap)

NextStream ==
    \/ PortStarts
    \/ PortStops
    \/ CaptureCallbacks
    \/ StreamAdvances
    \/ StreamYields
    \/ StreamTimesOut

SpecStream == InitStream /\ [][NextStream]_vars

\* the event loop runs a coroutine that is ready: the timer of the read
\* timeout fires, a get with a chunk to return returns, and the consumer
\* asks for the next chunk
StreamFairness ==
    /\ WF_vars(StreamAdvances)
    /\ WF_vars(StreamYields)
    /\ WF_vars(StreamTimesOut)

SpecStreamFair == SpecStream /\ StreamFairness

-----------------------------------------------------------------------------
(* A playback port and its producers: specification                        *)

InitWrite ==
    /\ PipeInit(MaxStarts)
    /\ LinkInit
    /\ TrackerIdle
    /\ CaptureIdle
    /\ ScriptIdle
    /\ RelayInit
    /\ UsersIdle /\ MonoIdle
    /\ \E cap \in PortQueueSizes : PortInit("playback", "none", cap)

NowaitWritesReturn == \E len \in ChunkLens : NowaitReturns(len)
TimedWrites == \E len \in ChunkLens : TimedWrite(len)

NextWrite ==
    \/ PortStarts
    \/ PortStops
    \/ PlaybackCallbacks
    \/ NowaitWritesReturn
    \/ TimedWrites
    \/ TimedPutLands
    \/ WaitForExpires
    \/ PutExpires

SpecWrite == InitWrite /\ [][NextWrite]_vars

-----------------------------------------------------------------------------
(* SystemAudioCapture: specification                                       *)

InitMono ==
    /\ PipeInit(MaxStarts)
    /\ LinkInit
    /\ TrackerIdle
    /\ CaptureInit(MaxCapacity)
    /\ PortIdle
    /\ ScriptIdle
    /\ RelayInit
    /\ UsersIdle
    /\ \E stereo_to_mono \in BOOLEAN : MonoInit(stereo_to_mono)

SystemAudioCallbacks ==
    \E in_data \in Buffers(m_input_channels), overflow \in BOOLEAN :
       SystemAudioCallback(in_data, overflow)

NextMono == SystemAudioCallbacks

SpecMono == InitMono /\ [][NextMono]_vars

-----------------------------------------------------------------------------
(* Claims about the pipeline                                               *)

\* C1 (as claimed).  In BIDIRECTIONAL mode no link instance is used by loops
\* of both directions: two loops that are iterating for different directions
\* never hold the same link instance.
C1_DistinctLinksPerDirection ==
    p_mode = "BIDIRECTIONAL" =>
        \A t1, t2 \in TaskInstances :
            ( /\ t1.st = "running" /\ t2.st = "running"
              /\ TaskDir(t1.name) # TaskDir(t2.name)
              /\ t1.client # "dropped" )
                => t1.client # t2.client

\* a loop task ends in its `except Exception` branch in this step
TaskRaises ==
    \/ \E n \in TaskNames : Alive(p_task[n].st) /\ p_task'[n].st = "failed"
    \/ \E k \in LeakKeys :
          /\ p_leaked'[k] < p_leaked[k]
          /\ p_stats'.errors # p_stats.errors

\* the user has called start_*() once on this pipeline (SpecPipe)
OneStartCall == p_starts = MaxStarts - 1

\* C2 (as claimed), for a pipeline on which start_*() has been called once.
\* A loop task that ends by raising adds exactly 1 to errors_encountered and
\* sets the state to ERROR, and the state is ERROR for as long as a loop has
\* raised and stop() has not been called since.
C2_ErrorUntilStop ==
    [][ /\ TaskRaises =>
             /\ p_stats'.errors = p_stats.errors + 1
             /\ p_state' = "ERROR"
        /\ (OneStartCall' /\ \E n \in TaskNames : p_task'[n].st = "failed")
             => p_state' = "ERROR" ]_vars

\* the outgoing send loop of a bidirectional pipeline raises in this step
OutgoingSendRaises ==
    /\ p_mode = "BIDIRECTIONAL"
    /\ Alive(p_task["outgoing_send"].st)
    /\ p_task'["outgoing_send"].st = "failed"

\* a loop of the outgoing direction advances a counter in this step: a chunk
\* is sent to the outgoing link, or a chunk of the outgoing link is played
OutgoingAdvances ==
    \/ p_client'["outgoing_gemini_client"].chunks_sent
         > p_client["outgoing_gemini_client"].chunks_sent
    \/ /\ p_client'["outgoing_gemini_client"].q < p_client["outgoing_gemini_client"].q
       /\ p_stats'.audio_chunks_played > p_stats.audio_chunks_played

\* C3 (as claimed).  Once the outgoing send loop of a bidirectional pipeline
\* has failed, the outgoing counters stop advancing.
C3_OutgoingCountersStop ==
    [][ (p_mode = "BIDIRECTIONAL" /\ p_task["outgoing_send"].st = "failed")
            => ~OutgoingAdvances ]_vars

\* C3 (amended).  When the outgoing send loop of a bidirectional pipeline
\* fails, the state becomes ERROR and the failure is counted once; no other
\* loop, link, port or chunk counter is touched, so the incoming loops keep
\* running and, while the pipeline is in ERROR, the incoming send loop can
\* still forward the next chunk; the outgoing link is only sent to by a live
\* outgoing send loop (the failed one forwards nothing further), while the
\* outgoing receive loop keeps running.
C3_FailureIsolation ==
    /\ [][ OutgoingSendRaises =>
             /\ p_state' = "ERROR"
             /\ p_stats' = [p_stats EXCEPT !.errors = @ + 1]
             /\ \A n \in TaskNames \ {"outgoing_send"} : p_task'[n] = p_task[n]
             /\ UNCHANGED <<p_leaked, p_client, p_port>> ]_vars
    /\ [][ p_client'["outgoing_gemini_client"].chunks_sent
             > p_client["outgoing_gemini_client"].chunks_sent
           => \E t \in TaskInstances :
                 t.name = "outgoing_send" /\ t.client = "outgoing_gemini_client" ]_vars
    /\ [](( /\ p_mode = "BIDIRECTIONAL"
            /\ p_state = "ERROR"
            /\ p_pc = Idle
            /\ p_task["outgoing_send"].st = "failed"
            /\ Alive(p_task["incoming_send"].st)
            /\ ClientConnected(p_task["incoming_send"].client)
            /\ ChunksEntered < MaxChunks )
           => ENABLED (\E t \in TaskInstances :
                          t.name = "incoming_send" /\ SendLoopForwards(t)))

\* C3 witness: the outgoing send loop has failed, the pipeline is in ERROR,
\* the outgoing receive loop and both incoming loops are still running and
\* the incoming link has been sent a chunk
C3_Witness ==
    /\ p_mode = "BIDIRECTIONAL"
    /\ p_state = "ERROR"
    /\ p_task["outgoing_send"].st = "failed"
    /\ p_task["outgoing_receive"].st = "running"
    /\ p_task["incoming_send"].st = "running"
    /\ p_task["incoming_receive"].st = "running"
    /\ p_client["incoming_gemini_client"].chunks_sent > 0

\* nothing the pipeline created is left: no live task, no open port, no link
PipelineClean ==
    /\ TaskInstances = {}
    /\ \A f \in PortNames : p_port[f] = "NONE" /\ p_leakedPorts[f] = 0
    /\ \A c \in ClientNames : p_client[c].state = "NONE"

\* C4 (as claimed).  When stop() has returned with state STOPPED, no task of
\* the pipeline is running, no port it created is open and no link is
\* connected.
C4_StoppedIsClean ==
    (p_state = "STOPPED" /\ p_pc = Idle) => PipelineClean

\* stop() releases the port of field f in this step
PortReleased(f) == p_port[f] # "NONE" /\ p_port'[f] = "NONE"

\* stop() disconnects a link in this step
ClientReleased == \E c \in ClientNames : p_client[c].state # "NONE" /\ p_client'[c].state = "NONE"

\* C5 (as claimed).  During stop(): every running loop task is cancelled and
\* awaited before any port is released; the playback ports are released
\* before the capture ports; the links are disconnected after all ports.
C5_GlobalStopOrder ==
    [][ p_pc.op = "stop" =>
          /\ (\E f \in PortNames : PortReleased(f)) => TaskInstances = {}
          /\ \A d \in Directions : PortReleased(CapturePort(d)) =>
                \A e \in Directions : p_port[PlaybackPort(e)] = "NONE"
          /\ ClientReleased => \A f \in PortNames : p_port[f] = "NONE" ]_vars

\* the loops stop() has stored for direction d are no longer running
LoopsStopped(d) == ~Alive(p_task[SendTask(d)].st) /\ ~Alive(p_task[ReceiveTask(d)].st)

\* C5 (amended).  During stop() the steps happen in a fixed order per
\* direction, outgoing first: the direction's stored loop tasks are
\* cancelled and awaited before either of its ports is released, its capture
\* port is released before its playback port, the incoming direction is
\* cleaned up only after the outgoing ports are released, and the links are
\* disconnected only after the stored tasks and ports of every direction of
\* the current mode are released.
C5_PerDirectionStopOrder ==
    [][ p_pc.op = "stop" =>
          /\ \A d \in Directions :
                (PortReleased(CapturePort(d)) \/ PortReleased(PlaybackPort(d)))
                    => LoopsStopped(d)
          /\ \A d \in Directions :
                PortReleased(PlaybackPort(d)) => p_port[CapturePort(d)] = "NONE"
          /\ (p_mode = "BIDIRECTIONAL" /\ p_pc.arg = "incoming")
                => /\ p_port["mic_capture"] = "NONE"
                   /\ p_port["virtual_mic_output"] = "NONE"
          /\ ClientReleased =>
                \A i \in 1..Len(StopDirections(p_mode)) :
                    LET d == StopDirections(p_mode)[i] IN
                    /\ LoopsStopped(d)
                    /\ p_port[CapturePort(d)] = "NONE"
                    /\ p_port[PlaybackPort(d)] = "NONE" ]_vars

\* C5 witness: stop() of a bidirectional pipeline has released both outgoing
\* ports and is about to cancel the incoming loops, which are still running
\* with their ports open
C5_Witness ==
    /\ p_pc = At("stop", "incoming", "cancel_send")
    /\ p_mode = "BIDIRECTIONAL"
    /\ p_port["mic_capture"] = "NONE"
    /\ p_port["virtual_mic_output"] = "NONE"
    /\ Alive(p_task["incoming_send"].st)
    /\ p_port["system_capture"] = "RUNNING"
    /\ p_port["speaker_output"] = "RUNNING"

\* C6 (as claimed).  Every transition into STARTING comes from STOPPED, and
\* ERROR is entered only from STARTING or RUNNING.
C6_StateMachine ==
    [][ /\ (p_state' = "STARTING" /\ p_state # "STARTING") => p_state = "STOPPED"
        /\ (p_state' = "ERROR" /\ p_state # "ERROR")
              => p_state \in {"STARTING", "RUNNING"} ]_vars

-----------------------------------------------------------------------------
(* Claims about the link                                                   *)

\* the generator's pull times out in this step while should_reconnect() holds
ExpiredTimeout ==
    /\ l_gen = "waiting"
    /\ l_queue = 0
    /\ should_reconnect(l_age)
    /\ l_gen' # l_gen

\* C7.  When a pull of receive_audio() times out while should_reconnect()
\* is true and auto-reconnect is enabled, _reconnect() starts: the link is
\* RECONNECTING and reconnection_count has grown by exactly 1; the link is
\* then disconnected (no session, no session start, receive task stopped)
\* before it connects again; reconnection_count does not change again until
\* _reconnect() is over; and when an attempt succeeds the link is CONNECTED
\* with a running receive task and a session start of age 0, for which
\* should_reconnect() is false, and the generator waits for the next chunk.
\* (Every connect() reads the same self._config, which is set once in
\* __init__ and is not a variable of this model.)
C7_TransparentReconnect ==
    [][ /\ (ExpiredTimeout /\ l_auto) =>
              /\ l_gen' = "reconnect_disconnect"
              /\ l_state' = "RECONNECTING"
              /\ l_stats'.reconnection_count = l_stats.reconnection_count + 1
        /\ (l_gen = "reconnect_disconnect" /\ l_gen' # l_gen) =>
              /\ ~l_session'
              /\ l_age' = -1
              /\ l_rtask' # "running"
              /\ l_state' = "CONNECTING"
        /\ InReconnect =>
              /\ l_stats'.reconnection_count = l_stats.reconnection_count
              /\ l_auto' = l_auto
        /\ (l_gen = "connecting" /\ l_state' = "CONNECTED") =>
              /\ is_connected'
              /\ l_rtask' = "running"
              /\ l_age' = 0
              /\ ~should_reconnect(l_age')
              /\ l_stats' = l_stats
              /\ l_gen' = "waiting" ]_vars

\* C7 witness: after one reconnection the generator has yielded a chunk of
\* the new session, which is still fresh
C7_Witness ==
    /\ l_auto
    /\ l_stats.reconnection_count = 1
    /\ l_gen = "yielded"
    /\ is_connected
    /\ l_age = 0
    /\ l_rh = [state |-> "IDLE", retry_count |-> 0]

\* C8.  When a pull of receive_audio() times out while should_reconnect()
\* is true and auto-reconnect is disabled, the generator raises the
\* session-expired error and nothing else changes: state, session, receive
\* task, session start, statistics and reconnection handler are untouched.
\* A link with auto-reconnect disabled never reconnects.
C8_ExpiryRaisedWithoutReconnect ==
    /\ [][ (ExpiredTimeout /\ ~l_auto) =>
              /\ l_gen' = "raised_expired"
              /\ UNCHANGED <<l_state, l_session, l_rtask, l_queue, l_age,
                             l_stats, l_rh, l_delay>> ]_vars
    /\ [](~l_auto => (~InReconnect /\ l_stats.reconnection_count = 0))

\* C8 witness: the generator has raised the session-expired error on a link
\* that is still CONNECTED with its expiring session and has never reconnected
C8_Witness ==
    /\ ~l_auto
    /\ l_gen = "raised_expired"
    /\ is_connected
    /\ should_reconnect(l_age)
    /\ l_rtask = "running"
    /\ l_stats.reconnection_count = 0

\* the consumer is iterating receive_audio()
GenIterating == l_gen \in {"waiting", "yielded"}

\* C9 (as claimed), for a link that has had no error.  While a consumer
\* iterates receive_audio() on a CONNECTED link, once should_reconnect() is
\* true the link eventually reconnects or raises the session-expired error
\* (or the iteration or the connection has ended otherwise).
C9_ExpiryEventuallyChecked ==
    (GenIterating /\ is_connected /\ should_reconnect(l_age) /\ l_stats.error_count = 0)
        ~> (InReconnect \/ l_gen = "raised_expired" \/ ~GenIterating \/ ~is_connected)

\* the last reconnect_with_backoff() gave up after MAX_RETRIES failed attempts
BudgetExhausted == l_rh.state = "FAILED" /\ l_rh.retry_count >= MAX_RETRIES

\* C10 (as claimed).  A link whose reconnection has exhausted its retry
\* budget is never CONNECTED again.
C10_ExhaustedStaysFailed == BudgetExhausted => l_state # "CONNECTED"

\* the link leaves ERROR in this step
LeavesError == l_state = "ERROR" /\ l_state' # "ERROR"

\* C11 (as claimed).  A link in ERROR leaves ERROR only through a connect()
\* attempt: whenever the state of a link in ERROR changes, the link is
\* connecting or connected afterwards.
C11_ErrorOnlyLeftByConnect ==
    [][ LeavesError => l_state' \in {"CONNECTING", "CONNECTED"} ]_vars

\* C11 (amended).  A link in ERROR leaves ERROR only in one of four ways:
\* a connect() of the application that succeeds (CONNECTED, new session of
\* age 0, receive task running); the connect() that a retry of a
\* reconnection in progress makes after its backoff sleep (CONNECTING); a
\* disconnect() of the application (DISCONNECTED, no session); or the
\* _reconnect() that receive_audio() starts when its pull times out on an
\* empty queue with auto-reconnect enabled and a session start at least
\* timeout - buffer old (RECONNECTING).  send_audio(), the background
\* receive task and every other step of receive_audio() leave the state of
\* a link in ERROR as it is.
C11_ErrorExits ==
    /\ [][ LeavesError =>
             \/ /\ l_state' = "CONNECTED"
                /\ ~InReconnect
                /\ l_session' /\ l_age' = 0 /\ l_rtask' = "running"
                /\ l_raised' = "none"
             \/ /\ l_state' = "CONNECTING"
                /\ l_gen = "backoff_sleep" /\ l_gen' = "connecting"
                /\ l_calls'.connects = l_calls.connects + 1
             \/ /\ l_state' = "DISCONNECTED"
                /\ ~InReconnect
                /\ ~l_session' /\ l_age' = -1 /\ l_rtask' # "running"
             \/ /\ l_state' = "RECONNECTING"
                /\ l_gen = "waiting" /\ l_gen' = "reconnect_disconnect"
                /\ l_auto /\ l_queue = 0
                /\ l_age >= DEFAULT_SESSION_TIMEOUT - RECONNECT_BUFFER ]_vars
    /\ [][ ( /\ l_state = "ERROR"
             /\ \/ LinkSends \/ LinkDelivers \/ LinkFaults \/ LinkStreamEnds
                \/ ReceiveAudioCalled \/ GenYields \/ GenResumes )
           => l_state' = "ERROR" ]_vars

\* C11 witness: a connect() failed with the authentication error, which put
\* the link in ERROR, and a disconnect() has taken it to DISCONNECTED
C11_Witness ==
    /\ l_state = "DISCONNECTED"
    /\ l_raised = "GeminiAuthenticationError"
    /\ l_stats.error_count = 1
    /\ l_stats.reconnection_count = 0

\* C12.  send_audio() has three failure kinds.  On a link that is not
\* connected it raises the connection error, hands nothing to the session
\* and changes no statistic.  On a connected link a fault of the send whose
\* message says "session expired" raises the session-expired error and any
\* other fault raises the audio error; in both cases error_count grows by
\* exactly 1 and chunks_sent, bytes_sent and the state of the link are
\* unchanged.  A send without a fault raises nothing and counts the chunk.
\* (A step of send_audio() that changes anything changes l_wire or l_raised.)
C12_SendFailureKinds ==
    [][ (l_wire' # l_wire \/ l_raised' # l_raised) =>
        \A len \in ChunkLens, fault \in SendFaults :
          LinkSendAudio(len, fault) =>
            /\ ~is_connected =>
                 /\ l_raised' = "GeminiConnectionError"
                 /\ l_wire' = l_wire
                 /\ l_stats' = l_stats
            /\ (is_connected /\ fault # "none") =>
                 /\ l_raised' = IF fault = "session expired"
                                THEN "GeminiSessionExpiredError"
                                ELSE "GeminiAudioError"
                 /\ l_stats'.error_count = l_stats.error_count + 1
                 /\ l_stats'.chunks_sent = l_stats.chunks_sent
                 /\ l_stats'.bytes_sent = l_stats.bytes_sent
                 /\ l_stats'.reconnection_count = l_stats.reconnection_count
            /\ (is_connected /\ fault = "none") =>
                 /\ l_raised' = "none"
                 /\ l_stats'.error_count = l_stats.error_count
                 /\ l_stats'.chunks_sent = l_stats.chunks_sent + 1
                 /\ l_stats'.bytes_sent = l_stats.bytes_sent + len
            /\ UNCHANGED <<l_state, l_session>> ]_vars

\* C12 witness: on a connected link a chunk was handed to the session and
\* the send raised the session-expired error; the failure is counted, the
\* chunk is not
C12_Witness ==
    /\ is_connected
    /\ l_raised = "GeminiSessionExpiredError"
    /\ l_wire = 1
    /\ l_stats.error_count = 1
    /\ l_stats.chunks_sent = 0
    /\ l_stats.bytes_sent = 0

\* the loop of task t is still there after this step
LoopKeepsRunning(t) ==
    IF t.kind = "handle"
    THEN p_task'[t.name] = p_task[t.name]
    ELSE p_leaked'[KeyOf(t, t.st)] = p_leaked[KeyOf(t, t.st)]

\* C13 (as claimed).  When send_audio() raises the session-expired error in
\* a send loop, the loop is not ended and the pipeline does not go to ERROR.
C13_ExpiredSendNotFatal ==
    [][ \A t \in TaskInstances :
          SendLoopCatches(t, "GeminiSessionExpiredError") =>
            /\ p_state' = p_state
            /\ LoopKeepsRunning(t) ]_vars

\* C14 (as claimed), for the send operation.  A failed send (audio error)
\* that has not recurred past the retry budget is counted, the send loop
\* keeps running and a RUNNING pipeline stays RUNNING.
C14_SingleAudioErrorNotFatal ==
    [][ \A t \in TaskInstances :
          ( /\ SendLoopCatches(t, "GeminiAudioError")
            /\ p_stats.errors < MAX_RETRIES )
          => /\ p_stats'.errors = p_stats.errors + 1
             /\ p_state = "RUNNING" => p_state' = "RUNNING"
             /\ LoopKeepsRunning(t) ]_vars

\* an attempt of reconnect_with_backoff() ends with the authentication error
AuthenticationFails == GenConnectReturns("authentication")

\* C15.  When an attempt of reconnect_with_backoff() raises the
\* authentication error the call returns failure at once: the handler is
\* FAILED, its retry count is what it was (0 on the first attempt), no sleep
\* starts and connect is not called again; connect is only ever called from
\* inside a reconnect_with_backoff() in progress, and an attempt in progress
\* is the retry count's successor.
C15_AuthenticationAborts ==
    /\ [][ AuthenticationFails =>
             /\ l_gen' = "raised_reconnect_failed"
             /\ l_state' = "ERROR"
             /\ l_rh' = [state |-> "FAILED", retry_count |-> l_rh.retry_count]
             /\ l_calls' = l_calls
             /\ l_delay' = 0 ]_vars
    /\ [][ l_calls' # l_calls => InReconnect /\ InReconnect' ]_vars
    /\ [](l_gen = "connecting" => l_calls.connects = l_rh.retry_count + 1)

\* C15 witness: the first attempt of a reconnection failed with the
\* authentication error; one connect call, no sleep, no retry consumed
C15_Witness ==
    /\ l_gen = "raised_reconnect_failed"
    /\ l_state = "ERROR"
    /\ l_rh = [state |-> "FAILED", retry_count |-> 0]
    /\ l_calls = [connects |-> 1, sleeps |-> 0]

\* C16.  reconnect_with_backoff() never calls connect more than MAX_RETRIES
\* times; when it gives up after transient failures it has made exactly
\* MAX_RETRIES attempts with MAX_RETRIES - 1 sleeps between them and the
\* handler is FAILED; and a reconnection in progress always comes to an end.
C16_BoundedAttempts ==
    /\ [](l_calls.connects <= MAX_RETRIES)
    /\ [][ ( /\ l_gen = "connecting"
             /\ l_gen' = "raised_reconnect_failed"
             /\ l_rh'.retry_count # l_rh.retry_count )
           => /\ l_calls' = [connects |-> MAX_RETRIES, sleeps |-> MAX_RETRIES - 1]
              /\ l_rh' = [state |-> "FAILED", retry_count |-> MAX_RETRIES]
              /\ l_state' = "ERROR" ]_vars
    /\ InReconnect ~> ~InReconnect

\* C16 witness: a reconnection gave up after MAX_RETRIES failed attempts
C16_Witness ==
    /\ l_gen = "raised_reconnect_failed"
    /\ l_rh = [state |-> "FAILED", retry_count |-> MAX_RETRIES]
    /\ l_calls = [connects |-> MAX_RETRIES, sleeps |-> MAX_RETRIES - 1]

\* the delay the claim computes before the k-th retry, in seconds
ClaimedDelay(k) == Min(BASE_DELAY * BACKOFF_MULTIPLIER ^ (k - 1), MAX_DELAY)

\* C17 (as claimed).  During the sleep before the k-th retry the computed
\* delay is min(BASE_DELAY * 2^(k-1), MAX_DELAY), the delay slept is between
\* 50% and 100% of that value, and no delay exceeds MAX_DELAY.
C17_BackoffDelays ==
    l_gen = "backoff_sleep" =>
        LET k == l_rh.retry_count IN
        /\ calculate_delay(k) = ClaimedDelay(k)
        /\ 500 * ClaimedDelay(k) <= l_delay
        /\ l_delay <= 1000 * ClaimedDelay(k)
        /\ l_delay <= 1000 * MAX_DELAY

\* C18.  A reconnect_with_backoff() starts with a connect call and no sleep;
\* when its first two attempts fail transiently and the third succeeds, it
\* returns success after exactly 3 connect calls and 2 sleeps, and the
\* handler is IDLE with retry_count 0.
C18_ThirdAttemptSucceeds ==
    /\ [][ (l_gen = "reconnect_disconnect" /\ l_gen' # l_gen) =>
             /\ l_gen' = "connecting"
             /\ l_calls' = [connects |-> 1, sleeps |-> 0]
             /\ l_delay' = 0 ]_vars
    /\ [][ (l_gen = "connecting" /\ l_rh.retry_count = 2 /\ l_state' = "CONNECTED") =>
             /\ l_calls' = [connects |-> 3, sleeps |-> 2]
             /\ l_calls' = l_calls
             /\ l_rh' = [state |-> "IDLE", retry_count |-> 0]
             /\ l_gen' = "waiting" ]_vars

\* C18 witness: a reconnection succeeded on its third attempt
C18_Witness ==
    /\ l_gen = "waiting"
    /\ is_connected
    /\ l_calls = [connects |-> 3, sleeps |-> 2]
    /\ l_rh = [state |-> "IDLE", retry_count |-> 0]
    /\ l_stats.reconnection_count = 1

-----------------------------------------------------------------------------
(* Claims about the session timeout tracker                                *)

\* should_reconnect() of the tracker as it is now
TrackerShouldReconnect == tracker_should_reconnect(t_timeout, t_start, t_now)

\* the time elapsed since start_session()
Elapsed == t_now - t_start

\* what the tracker answers before a session, after it, and on either side
\* of the threshold
TrackerAnswers ==
    /\ t_start = -1 =>
         /\ get_session_duration(t_start, t_now) = 0
         /\ ~TrackerShouldReconnect
    /\ t_start # -1 =>
         /\ get_session_duration(t_start, t_now) = Elapsed
         /\ Elapsed < t_timeout - RECONNECT_BUFFER => ~TrackerShouldReconnect
         /\ Elapsed >= t_timeout - RECONNECT_BUFFER => TrackerShouldReconnect

\* C19 (as claimed).  should_reconnect() is false immediately after
\* start_session() and for every elapsed time below timeout - buffer, true
\* for every elapsed time at or above timeout - buffer; after end_session()
\* or before any start_session() the duration is 0 and it is false.
C19_FalseAtStart ==
    /\ TrackerAnswers
    /\ (t_start # -1 /\ Elapsed = 0) => ~TrackerShouldReconnect

\* C19 (amended).  As claimed, except that should_reconnect() is false
\* immediately after start_session() only on a tracker whose timeout is
\* greater than RECONNECT_BUFFER; with a timeout of RECONNECT_BUFFER or less
\* it is true from the start of the session.
C19_FalseAtStartOfLongSession ==
    /\ TrackerAnswers
    /\ (t_start # -1 /\ Elapsed = 0) =>
         (~TrackerShouldReconnect <=> t_timeout > RECONNECT_BUFFER)

\* C19 witness: a session with the default timeout is exactly
\* timeout - buffer old and should_reconnect() is true
C19_Witness ==
    /\ t_timeout = DEFAULT_SESSION_TIMEOUT
    /\ t_start # -1
    /\ Elapsed = DEFAULT_SESSION_TIMEOUT - RECONNECT_BUFFER
    /\ TrackerShouldReconnect

-----------------------------------------------------------------------------
(* Claims about the capture queue                                          *)

Max(a, b) == IF a >= b THEN a ELSE b

\* C20.  The capture queue never holds more than its capacity; after n
\* callbacks without an overflow flag and without a read it holds the
\* first min(n, capacity) chunks in order (the newest were dropped) and
\* overruns is max(0, n - capacity); and the callback can always run: it
\* does not wait for room in the queue.
C20_QueueBounded ==
    /\ Len(c_queue) <= c_cap
    /\ (c_flags = 0 /\ c_reads = 0) =>
         LET n == c_stats.chunks_captured IN
         /\ c_queue = [i \in 1..Min(n, c_cap) |-> i]
         /\ c_stats.overruns = Max(0, n - c_cap)
    /\ c_stats.chunks_captured < MaxPushed => ENABLED AudioCallbacks

\* C20 witness: four callbacks on a queue of capacity 2 without a read or a
\* flag; chunks 1 and 2 are queued and two overruns are counted
C20_Witness ==
    /\ c_cap = 2
    /\ c_flags = 0
    /\ c_reads = 0
    /\ c_stats.chunks_captured = 4
    /\ c_stats.overruns = 2
    /\ c_queue = <<1, 2>>

-----------------------------------------------------------------------------
(* Claims about the audio ports                                            *)

\* C21.  On a capture port, as long as no more chunks have gone through the
\* callback than the queue can hold, every one of them is either already
\* returned by read_chunk() or still queued: the chunks read followed by the
\* chunks queued are the chunks pushed, in the order they were pushed, each
\* once and with its data; and read_chunk() only returns a chunk on a
\* RUNNING port.
C21_ReadInPushOrder ==
    /\ []((a_kind = "capture" /\ Len(a_pushed) <= a_cap) =>
             a_read \o a_queue = a_pushed)
    /\ [][a_read' # a_read =>
            /\ a_state = "RUNNING"
            /\ a_read' = Append(a_read, Head(a_queue))
            /\ a_queue' = Tail(a_queue)]_vars

\* C21 witness: three chunks with different data went through the callback
\* of a RUNNING port with a queue of three, and read_chunk() has returned
\* all three in that order
C21_Witness ==
    /\ a_kind = "capture"
    /\ a_state = "RUNNING"
    /\ a_cap = 3
    /\ a_pushed = <<[id |-> 1, len |-> 1], [id |-> 2, len |-> 2], [id |-> 3, len |-> 1]>>
    /\ a_read = a_pushed
    /\ a_queue = <<>>

\* C22.  Every buffer the playback callback hands to the driver has the
\* expected size of chunk_size * channels * bytes per sample, whatever was
\* written to the port, and comes with the continue flag.
C22_ExactBufferSize ==
    (a_kind = "playback" /\ a_out # <<>>) =>
      /\ a_out[1].data.len = BytesPerChunk
      /\ a_out[1].flag = "paContinue"

\* C23.  A playback callback without paOutputUnderflow that finds the queue
\* empty returns silence (a buffer of zeros of the expected size) with the
\* continue flag, adds exactly 1 to underruns and leaves chunks_played,
\* bytes_played and the queue as they are.
C23_SilenceOnEmptyQueue ==
    [][ (PlaybackCallback(FALSE) /\ a_queue = <<>>) =>
          /\ a_out' = <<[data |-> [len |-> BytesPerChunk, zero |-> TRUE],
                         flag |-> "paContinue"]>>
          /\ a_stats'.underruns = a_stats.underruns + 1
          /\ a_stats'.chunks_played = a_stats.chunks_played
          /\ a_stats'.bytes_played = a_stats.bytes_played
          /\ a_queue' = <<>> ]_vars

\* C23 witness: on a RUNNING playback port the two prebuffered buffers have
\* been played and a third callback, like them without the underflow flag,
\* found the queue empty
C23_Witness ==
    /\ a_kind = "playback"
    /\ a_state = "RUNNING"
    /\ a_flags = 0
    /\ a_stats = [chunks_played |-> PREBUFFER_SIZE,
                  bytes_played |-> PREBUFFER_SIZE * BytesPerChunk,
                  underruns |-> 1]
    /\ a_queue = <<>>
    /\ a_out = <<[data |-> Silence, flag |-> "paContinue"]>>

\* C24.  Whenever a start() of a playback port succeeds (STOPPED to
\* RUNNING), the queue then holds exactly prebuffer_size buffers, all of
\* them silence.
C24_PrebufferAfterStart ==
    [][ (a_kind = "playback" /\ a_state = "STOPPED" /\ a_state' = "RUNNING") =>
          a_queue' = [i \in 1..PREBUFFER_SIZE |-> Silence] ]_vars

\* C25.  A start() on a port that is not STOPPED raises the stream error of
\* the port's class and changes nothing: state, queue, counters, stream and
\* driver instance are as before.
C25_StartRefused ==
    [][ (a_state # "STOPPED" /\ a_calls' # a_calls /\ PortStarts) =>
          /\ a_raised' = IF a_kind = "capture"
                         THEN "AudioStreamError" ELSE "PlaybackStreamError"
          /\ UNCHANGED <<a_state, a_queue, a_stats, a_stream, a_pyaudio,
                         a_pushed, a_read, a_out, a_writer>> ]_vars

\* C25 witness: a second start() on a RUNNING capture port that holds a
\* captured chunk has raised; the port still runs and still holds the chunk
C25_Witness ==
    /\ a_kind = "capture"
    /\ a_calls = 2
    /\ a_raised = "AudioStreamError"
    /\ a_state = "RUNNING"
    /\ a_stream = "active"
    /\ Len(a_queue) = 1
    /\ a_stats.chunks_captured = 1

\* C26.  stop() can be called in every state and never raises; it leaves
\* the port STOPPED; on a port that is already STOPPED it changes nothing,
\* so that any number of stop() calls in a row leave the port as the first
\* of them did.
C26_StopIdempotent ==
    /\ [](a_calls < MaxPortCalls => ENABLED PortStops)
    /\ [][ (a_calls' # a_calls /\ PortStops) =>
              /\ a_state' = "STOPPED"
              /\ a_raised' = "none"
              /\ a_state = "STOPPED" =>
                    UNCHANGED <<a_state, a_queue, a_stats, a_stream, a_pyaudio,
                                a_pushed, a_read, a_out, a_writer>> ]_vars

\* C26 witness: a port with an invalid device index whose start() failed
\* (ERROR) has been stopped: it is STOPPED and the call raised nothing
C26_Witness ==
    /\ a_index = "invalid"
    /\ a_calls = 2
    /\ a_state = "STOPPED"
    /\ a_raised = "none"

\* C27.  When stop() returns, the port holds no stream and no driver
\* instance, whatever state it was called in and whether or not a step of
\* the cleanup raised.
C27_StopReleases ==
    [][ PortStops => (a_stream' = "none" /\ a_pyaudio' = FALSE) ]_vars

\* C28.  When stop() returns, the queue of the port is empty and its three
\* counters are zero, so that the next start() finds nothing of the run
\* before.
C28_StopResets ==
    [][ PortStops =>
          /\ a_queue' = <<>>
          /\ a_stats' = IF a_kind = "capture"
                        THEN [chunks_captured |-> 0, bytes_captured |-> 0,
                              overruns |-> 0]
                        ELSE [chunks_played |-> 0, bytes_played |-> 0,
                              underruns |-> 0] ]_vars

\* C29.  A start() of a STOPPED port with an invalid explicit device index
\* opens no stream and raises the device error of the port's class; a
\* start() whose stream cannot be opened raises the stream error; both
\* leave the port in ERROR without stream and driver instance.
C29_DeviceErrorDistinct ==
    [][ (PortStarts /\ a_state = "STOPPED" /\ a_state' # "RUNNING") =>
          /\ a_raised' = IF a_index = "invalid"
                         THEN (IF a_kind = "capture"
                               THEN "AudioDeviceError" ELSE "PlaybackDeviceError")
                         ELSE (IF a_kind = "capture"
                               THEN "AudioStreamError" ELSE "PlaybackStreamError")
          /\ a_state' = "ERROR"
          /\ a_stream' = "none"
          /\ a_pyaudio' = FALSE ]_vars

-----------------------------------------------------------------------------
(* Claims about device discovery at pipeline start                         *)

\* the start call in progress has gone through its except branch
StartHasFailed ==
    /\ p_pc.op \in {"start_outgoing", "start_incoming", "start_bidirectional"}
    /\ p_pc.ph \notin {"connect", "run", "run_failed", "gather", "gather_failed"}

\* no loop task of direction d is created in this step
NoLoopLaunched(d) ==
    /\ p_task'[SendTask(d)] = p_task[SendTask(d)]
    /\ p_task'[ReceiveTask(d)] = p_task[ReceiveTask(d)]

\* the step in which a start call meets a discovery without result
DiscoveryFailsIn(d) ==
    RunSingle(d, "no_device") \/ RunGathered(d, "no_device")

\* the step in which the except branch of a start call runs after a
\* discovery without result
DiscoveryFailureHandled ==
    GatherRaises \/ \E d \in Directions : RunSingle(d, "no_device")

\* what only an outgoing start without a virtual microphone leaves behind:
\* the microphone open and no output port created
MicOpenWithoutOutput ==
    /\ p_port["mic_capture"] = "RUNNING"
    /\ p_port["virtual_mic_output"] = "NONE"

\* C30 (as claimed).  A start call whose discovery finds no device launches
\* no loop of that direction, sets ERROR and counts one error; the state is
\* still ERROR while the call, with the microphone it opened, goes on to
\* raise, and when it has raised the ports of that direction are stopped.
C30_DiscoveryFailureLeavesError ==
    /\ [][ \A d \in Directions : DiscoveryFailsIn(d) => NoLoopLaunched(d) ]_vars
    /\ [][ DiscoveryFailureHandled =>
              /\ p_state' = "ERROR"
              /\ p_stats'.errors = p_stats.errors + 1 ]_vars
    /\ [][ (StartHasFailed /\ MicOpenWithoutOutput) => p_state' = "ERROR" ]_vars
    /\ [][ (StartHasFailed /\ p_pc' = Idle) =>
              /\ p_port'[CapturePort(p_pc.arg)] = "NONE"
              /\ p_port'[PlaybackPort(p_pc.arg)] = "NONE" ]_vars

\* C30 (amended).  A start call whose discovery finds no device launches no
\* loop of that direction, and its except branch sets ERROR and counts one
\* error.  start_outgoing / start_incoming then stay in ERROR and have
\* stopped both ports of the direction when they raise.
\* start_bidirectional goes on with stop(): the state leaves ERROR for
\* STOPPING, and when that stop() returns all four ports are stopped and
\* the state is STOPPED.
C30_DiscoveryFailure ==
    /\ [][ \A d \in Directions : DiscoveryFailsIn(d) => NoLoopLaunched(d) ]_vars
    /\ [][ DiscoveryFailureHandled =>
              /\ p_state' = "ERROR"
              /\ p_stats'.errors = p_stats.errors + 1 ]_vars
    /\ [][ (StartHasFailed /\ p_pc.op # "start_bidirectional") =>
              /\ p_state' = "ERROR"
              /\ p_pc' = Idle =>
                    /\ p_port'[CapturePort(p_pc.arg)] = "NONE"
                    /\ p_port'[PlaybackPort(p_pc.arg)] = "NONE" ]_vars
    /\ [][ (StartHasFailed /\ p_pc.op = "start_bidirectional") =>
              /\ p_state' = "STOPPING"
              /\ p_pc'.op = "stop" ]_vars
    /\ [][ (p_pc.op = "stop" /\ p_pc' = Idle /\ p_mode = "BIDIRECTIONAL") =>
              /\ p_state' = "STOPPED"
              /\ \A f \in PortNames : p_port'[f] = "NONE" ]_vars

\* C30 witness: start_bidirectional on a fresh pipeline found no virtual
\* microphone after it had opened the microphone; the incoming direction
\* started; the except branch has run and is about to call stop()
C30_Witness ==
    /\ p_pc = At("start_bidirectional", "-", "call_stop")
    /\ p_state = "ERROR"
    /\ p_stats.errors = 1
    /\ p_port["mic_capture"] = "RUNNING"
    /\ p_port["virtual_mic_output"] = "NONE"
    /\ p_task["outgoing_send"].st = "none"
    /\ p_task["outgoing_receive"].st = "none"
    /\ p_port["system_capture"] = "RUNNING"
    /\ p_port["speaker_output"] = "RUNNING"

-----------------------------------------------------------------------------
(* Claims about the transcript buffers                                     *)

\* a is an initial segment of b
IsPrefix(a, b) == Len(a) <= Len(b) /\ SubSeq(b, 1, Len(a)) = a

\* C31: the receive task appends to the input buffer only when input
\* transcription is enabled and to the output buffer only when output
\* transcription is enabled: with transcription disabled both buffers stay
\* empty whatever responses arrive, and the buffers only grow until
\* clear_transcriptions() is called.
C31_TranscriptsFollowConfiguration ==
    /\ [](~s_enable => (s_input = <<>> /\ s_output = <<>>))
    /\ [][ClearTranscriptions \/ (IsPrefix(s_input, s_input') /\ IsPrefix(s_output, s_output'))]_vars

-----------------------------------------------------------------------------
(* Claims about one direction over its link                                *)

\* the generator's _reconnect() succeeds at its first attempt on a link that
\* has counted no error
ReconnectSucceeds ==
    /\ l_gen = "connecting"
    /\ l_gen' = "waiting"
    /\ l_stats.error_count = 0

\* C32: a proactive reconnect is transparent to the pipeline: if the receive
\* loop's link disconnects and reconnects with success while the send loop
\* of the same direction keeps getting captured chunks, the pipeline is
\* still RUNNING afterwards and the send loop is still alive.
C32_ReconnectTransparent ==
    [][ReconnectSucceeds => (r_state' = "RUNNING" /\ r_send' = "running")]_vars

-----------------------------------------------------------------------------
(* Claims about the links and tasks a pipeline holds                       *)

\* a start call returns normally
StartReturns == p_state = "STARTING" /\ p_state' = "RUNNING"

\* C33: whenever start_outgoing, start_incoming or start_bidirectional
\* returns normally (pipeline RUNNING), every link used by the loops it
\* launched is CONNECTED, also when the call follows a start attempt that
\* failed while connecting the link (no link has faulted by itself).
C33_RunningLinksConnected ==
    [][(StartReturns /\ p_faults = 0) =>
          \A n \in TaskNames :
             Alive(p_task'[n].st) =>
                /\ p_task'[n].client # "dropped"
                /\ p_client'[p_task'[n].client].state = "CONNECTED"]_vars

\* the live tasks of name n: the one its handle references and the ones whose
\* handle was overwritten
LiveTasks(n) ==
    LET leaked == {k \in LeakKeys : k.name = n /\ p_leaked[k] > 0} IN
    (IF Alive(p_task[n].st) THEN 1 ELSE 0)
    + (IF \E k \in leaked : p_leaked[k] > 1 THEN 2 ELSE Cardinality(leaked))

\* the open ports created for field f
OpenPorts(f) == (IF p_port[f] = "RUNNING" THEN 1 ELSE 0) + p_leakedPorts[f]

\* C34: at any time a pipeline has, per direction, at most one live send
\* task, one live receive task, one open capture port and one open playback
\* port: no start call replaces a stored port or task while the previous one
\* is still open or running.
C34_OneTaskAndPortPerRole ==
    /\ \A n \in TaskNames : LiveTasks(n) <= 1
    /\ \A f \in PortNames : OpenPorts(f) <= 1

\* connect() has opened a session: the link becomes CONNECTED
SessionOpened == l_state # "CONNECTED" /\ l_state' = "CONNECTED"

\* C35: a link never holds more than one open remote session and never more
\* than one live background receive task: when connect() opens a session
\* and creates the receive task, the link holds no session that is still
\* open and no receive task that is still running.
C35_OneSessionPerLink ==
    [][SessionOpened => (~l_session /\ l_rtask # "running")]_vars

-----------------------------------------------------------------------------
(* Claims about the chunks of a capture port                               *)

\* chunks the callback dropped on a full queue: the overruns it counted
\* without an overflow flag
ChunksDropped == c_stats.overruns - c_flags

\* C37: for a capture port, under any interleaving of hardware callbacks
\* and consumer reads, chunks_captured equals the chunks returned by
\* read_chunk plus the chunks queued plus the chunks dropped on a full
\* queue; a read takes the chunk it returns out of the queue, the queue
\* never holds a chunk twice, and a callback leaves the queued chunks alone.
C37_ChunksAccounted ==
    /\ [](c_stats.chunks_captured = c_reads + Len(c_queue) + ChunksDropped)
    /\ [](\A i, j \in 1..Len(c_queue) : i < j => c_queue[i] < c_queue[j])
    /\ [][c_reads' # c_reads =>
            (c_reads' = c_reads + 1 /\ c_queue' = Tail(c_queue))]_vars
    /\ [][c_stats'.chunks_captured # c_stats.chunks_captured =>
            IF QueueFull(c_queue, c_cap)
            THEN /\ c_queue' = c_queue
                 /\ ChunksDropped' = ChunksDropped + 1
            ELSE /\ c_queue' = Append(c_queue, c_stats'.chunks_captured)
                 /\ ChunksDropped' = ChunksDropped]_vars

\* C37 witness: five callbacks, one of them flagged, on a queue of capacity
\* 2: one chunk was read, two are queued and two were dropped
C37_Witness ==
    /\ c_cap = 2
    /\ c_stats.chunks_captured = 5
    /\ c_reads = 1
    /\ Len(c_queue) = 2
    /\ c_flags = 1
    /\ ChunksDropped = 2

-----------------------------------------------------------------------------
(* Claims about the producers of a playback port                           *)

\* the buffer of the write_chunk() in progress enters the queue
DataQueued ==
    /\ a_writer # <<>>
    /\ a_writer' = <<>>
    /\ a_queue' = Append(a_queue, Head(a_writer))

\* C36: if write_chunk(data, timeout) raises TimeoutError, data is not
\* placed in the playback queue afterwards; if it returns normally, data
\* was enqueued exactly once; under every interleaving of the writer, its
\* worker thread, the hardware callback and stop().
C36_TimedWriteAllOrNothing ==
    [][/\ u_call = "TimeoutError" => ~DataQueued
       /\ (u_call = "waiting" /\ u_call' = "returned") => DataQueued]_vars

\* C39: write_chunk_nowait never blocks and never raises: it returns True
\* and appends the data at the tail of the queue when the port is RUNNING
\* and the queue is not full; otherwise it returns False and leaves the
\* queue unchanged; the state and the counters are left alone either way.
C39_NowaitWriteEffects ==
    /\ [](Written < MaxWrites + PREBUFFER_SIZE => ENABLED NowaitWritesReturn)
    /\ [][\A len \in ChunkLens :
             NowaitReturns(len) =>
                /\ a_raised' = "none"
                /\ IF a_state = "RUNNING" /\ Len(a_queue) < a_cap
                   THEN /\ u_ret' = "True"
                        /\ a_queue' = Append(a_queue, [len |-> len, zero |-> FALSE])
                   ELSE /\ u_ret' = "False"
                        /\ a_queue' = a_queue
                /\ UNCHANGED <<a_state, a_stats, a_stream, a_pyaudio, a_writer>>]_vars

\* C39 witness: on a running port with a queue of 3 holding the two buffers
\* of the prebuffer, a call with one byte of audio has returned True
C39_Witness ==
    /\ a_kind = "playback"
    /\ a_state = "RUNNING"
    /\ a_cap = 3
    /\ u_ret = "True"
    /\ a_queue = <<Silence, Silence, [len |-> 1, zero |-> FALSE]>>

-----------------------------------------------------------------------------
(* Claims about the consumer of a capture port                             *)

RoundHalfUp(twice) == (twice + 1) \div 2
RoundHalfAway(twice) ==
    IF twice >= 0 THEN (twice + 1) \div 2 ELSE -((1 - twice) \div 2)
RoundHalfEven(twice) ==
    LET low == twice \div 2
    IN IF twice % 2 = 0 \/ low % 2 = 0 THEN low ELSE low + 1
Rounded(twice) ==
    {RoundHalfUp(twice), RoundHalfAway(twice), RoundHalfEven(twice)}

\* C40: after a callback of a capture that converts stereo to mono, the
\* chunk has one sample per frame of the buffer and each is (L + R) / 2
\* rounded to the nearest integer; the chunk is labelled 1 channel and has
\* the frame count of the buffer; self._channels is 2 again.
C40_MonoIsRoundedMean ==
    (m_stereo /\ m_chunk # <<>>) =>
        LET chunk == m_chunk[1]
            frames == Len(m_in) \div 2
        IN /\ Len(chunk.data) = frames
           /\ \A i \in 1..frames :
                 chunk.data[i] \in Rounded(m_in[2 * i - 1] + m_in[2 * i])
           /\ chunk.channels = 1
           /\ chunk.frames = frames
           /\ m_channels = 2

=============================================================================
